---- MODULE Spec2Model ----
(***************************************************************************)
(* The constraint registry (ConstraintSet) of src/src/Constraints.cc and   *)
(* the operations that act on it: the registration calls, Bind, clear and  *)
(* the constrained forward-dynamics solve.                                 *)
(*                                                                         *)
(* Conventions.  Row indices, constraint indices and return values are     *)
(* 0-based as in the code; position i of a TLA+ sequence holds element     *)
(* i-1 of the C++ container.  Lengths are measured in units of the         *)
(* machine epsilon, so that epsilon*100 is the integer EpsTol.  A contact  *)
(* point is a displacement along one axis (its norm is the absolute        *)
(* value); a frame is one translation component r and one rotation entry   *)
(* E.  A spatial or 3-D vector entry of a buffer is one integer.           *)
(***************************************************************************)
EXTENDS Integers, Sequences, FiniteSets, TLC

VARIABLES
  constraints,        \* std::vector<shared_ptr<Constraint>>: the ordered sequence
  contactConstraints, \* side collection: 0-based indices into constraints
  loopConstraints,    \* side collection: 0-based indices into constraints
  name, constraintType,               \* per-row arrays (std::vector)
  err, errd, force, impulse, v_plus,  \* per-row arrays (VectorNd)
  d_multdof3_u,                       \* std::vector<Vector3d>
  bound, linear_solver,
  H, C, gamma, G, A, b, x,            \* assembled system and augmented system
  K, a, QDDot_t, QDDot_0, f_t, point_accel_0, f_ext_constraints,
  d_pA, d_a, d_u,                     \* Kokkevis working memory
  GT_qr_Q, Y, Z, qddot_y, qddot_z,    \* null-space working memory
  QDDot,              \* the caller's output vector of the forward dynamics
  QDotPlus,           \* the caller's output vector of the impulse computation
  log,                \* the steps of the most recent assembly or recursion, in order
  world,              \* what the collaborators compute from the model's state
  solves,             \* the number of dynamics calls made so far
  Q, QDot, xsol,      \* the caller's output vectors of CalcAssemblyQ,
                      \* CalcAssemblyQDot and SolveLinearSystem
  asm,                \* the activation of CalcAssemblyQ: its locals and position
  aborted,            \* the process has been terminated
  call,               \* the most recent call and its arguments
  ret                 \* the value the most recent call returned

regVars == <<constraints, contactConstraints, loopConstraints, name, constraintType>>
rowVars == <<err, errd, force, impulse, v_plus, d_multdof3_u>>
sysVars == <<H, C, gamma, G, A, b, x>>
kokVars == <<K, a, QDDot_t, QDDot_0, f_t, point_accel_0, f_ext_constraints,
             d_pA, d_a, d_u>>
nsVars == <<GT_qr_Q, Y, Z, qddot_y, qddot_z>>
callerVars == <<Q, QDot, xsol, asm>>
envVars == <<world, solves, callerVars>>
vars == <<regVars, rowVars, sysVars, kokVars, nsVars, bound, linear_solver,
          QDDot, QDotPlus, log, envVars, aborted, call, ret>>

------------------------------------------------------------------------------
(* Bounds of the model and the fixed model topology.                        *)

MaxRows == 4        \* registrations stop once this many rows exist
MaxConstraints == 3 \* no constraint object is created once this many exist
MaxNormals == 2     \* longest normal / axis list of one multi-row call
MaxSolves == 1      \* dynamics calls made on the inputs of one model state
MaxRepeats == 2     \* dynamics calls made one after the other on one registry

DofCount == 2       \* model.dof_count = model.qdot_size
NumBodies == 3      \* model.mBodies.size(): the root and two movable bodies
EpsTol == 100       \* std::numeric_limits<double>::epsilon()*100, in epsilons

Val == {0, 1}

Frame(r, E) == [r |-> r, E |-> E]

\* The <<body, point>> pairs offered to AddContactConstraint: one body with
\* two points exactly 100 epsilons apart, and a second body.
ContactSites == { <<1, 0>>, <<1, 100>>, <<2, 0>> }

\* The <<idPredecessor, idSuccessor, XPredecessor, XSuccessor, <<enableStab,
\* stabParam>>>> tuples offered to AddLoopConstraint: a predecessor frame moved
\* by exactly 100 epsilons, a successor frame turned by 101 epsilons, and the
\* reversed body pair.
LoopSites == { <<1, 2, Frame(0, 0), Frame(0, 0), <<FALSE, 1>>>>,
               <<1, 2, Frame(100, 0), Frame(0, 0), <<TRUE, 2>>>>,
               <<1, 2, Frame(0, 0), Frame(0, 101), <<TRUE, 2>>>>,
               <<2, 1, Frame(0, 0), Frame(0, 0), <<FALSE, 1>>>> }
CustomSizes == {1, 2}

\* The <<e, v, tau>> offered to the forward dynamics: the position error and
\* the velocity error the constraints report, and the applied force
SolveInputs == { <<0, 1, 1>>, <<1, 1, 0>> }

\* The directions (normals, axes) a caller passes are labelled by integers; the
\* caller passes direction r for the row it expects to be row r, so that every
\* row of a registry carries a different direction and their order is visible.
Directions(from, k) == [i \in 1..k |-> from + i - 1]

LinearSolverPartialPivLU == "LinearSolverPartialPivLU"
LinearSolverColPivHouseholderQR == "LinearSolverColPivHouseholderQR"
LinearSolverHouseholderQR == "LinearSolverHouseholderQR"
\* a value of the selector outside the enumeration
LinearSolverUnknown == "LinearSolverUnknown"

ConstraintTypeContact == "ConstraintTypeContact"
ConstraintTypeLoop == "ConstraintTypeLoop"
ConstraintTypeCustom == "ConstraintTypeCustom"

------------------------------------------------------------------------------
(* Vectors and matrices.                                                    *)

Abs(i) == IF i < 0 THEN -i ELSE i

\* The sum of the first n entries of s, and of all of them (the sequence is
\* evaluated once, as the one element of a set)
RECURSIVE SumTo(_, _)
SumTo(s, n) == IF n = 0 THEN 0 ELSE SumTo(s, n - 1) + s[n]
SumSeq(s) == CHOOSE t \in { SumTo(sv, Len(sv)) : sv \in { s } } : TRUE

ZeroVec(n) == [i \in 1..n |-> 0]
ZeroMat(r, c) == [rows |-> r, cols |-> c, e |-> [ij \in (1..r) \X (1..c) |-> 0]]

IsZeroVec(v) == \A i \in 1..Len(v) : v[i] = 0
IsZeroMat(M) == \A ij \in DOMAIN M.e : M.e[ij] = 0

\* Eigen conservativeResize(n): the first min(old, n) entries are kept, the
\* entries beyond the old length are uninitialised (garbage g).
conservativeResize(v, n, g) == [i \in 1..n |-> IF i <= Len(v) THEN v[i] ELSE g]

\* v[r] = val for a 0-based r; a write outside the allocation does not land in v.
SetRow(v, r, val) == IF r + 1 \in 1..Len(v) THEN [v EXCEPT ![r + 1] = val] ELSE v

\* v[from + i] = val for i = 0 .. cnt-1
SetRows(v, from, cnt, val) ==
  [i \in 1..Len(v) |-> IF i - 1 >= from /\ i - 1 < from + cnt THEN val ELSE v[i]]

\* std::vector push_back of the same element cnt times
PushBack(v, cnt, val) == v \o [i \in 1..cnt |-> val]

\* Exact linear algebra on integer matrices and vectors
Mat(rws) ==
  [rows |-> Len(rws), cols |-> IF rws = <<>> THEN 0 ELSE Len(rws[1]),
   e |-> [ij \in (1..Len(rws)) \X (1..(IF rws = <<>> THEN 0 ELSE Len(rws[1]))) |->
            rws[ij[1]][ij[2]]]]
MatT(M) == [rows |-> M.cols, cols |-> M.rows,
            e |-> [ij \in (1..M.cols) \X (1..M.rows) |-> M.e[<<ij[2], ij[1]>>]]]
MatMul(M, N) ==
  [rows |-> M.rows, cols |-> N.cols,
   e |-> [ij \in (1..M.rows) \X (1..N.cols) |->
            SumSeq([k \in 1..M.cols |-> M.e[<<ij[1], k>>] * N.e[<<k, ij[2]>>]])]]
MatVec(M, v) ==
  [i \in 1..M.rows |-> SumSeq([k \in 1..M.cols |-> M.e[<<i, k>>] * v[k]])]
VecAdd(v, w) == [i \in 1..Len(v) |-> v[i] + w[i]]
VecSub(v, w) == [i \in 1..Len(v) |-> v[i] - w[i]]
VecNeg(v) == [i \in 1..Len(v) |-> - v[i]]

\* M.block(r0, c0, nr, nc) with 0-based r0, c0
Block(M, r0, c0, nr, nc) ==
  [rows |-> nr, cols |-> nc,
   e |-> [ij \in (1..nr) \X (1..nc) |-> M.e[<<r0 + ij[1], c0 + ij[2]>>]]]

\* M without row i and column j
Minor(M, i, j) ==
  [rows |-> M.rows - 1, cols |-> M.cols - 1,
   e |-> [ij \in (1..(M.rows - 1)) \X (1..(M.cols - 1)) |->
            M.e[<<IF ij[1] < i THEN ij[1] ELSE ij[1] + 1,
                  IF ij[2] < j THEN ij[2] ELSE ij[2] + 1>>]]]

\* The determinant, by expansion along the first row (each minor is
\* evaluated once, as the one element of a set)
RECURSIVE Det(_)
Det(M) ==
  IF M.rows = 0 THEN 1
  ELSE SumSeq([j \in 1..M.cols |->
         IF M.e[<<1, j>>] = 0 THEN 0
         ELSE (IF j % 2 = 1 THEN 1 ELSE -1) * M.e[<<1, j>>]
              * (CHOOSE dm \in { Det(m) : m \in { Minor(M, 1, j) } } : TRUE)])

\* M with its column j replaced by v
ReplaceColumn(M, j, v) ==
  [M EXCEPT !.e = [ij \in DOMAIN M.e |-> IF ij[2] = j THEN v[ij[1]] ELSE M.e[ij]]]

\* The solution x of the square regular system M x = v.  The systems of the
\* model are regular; for a singular M, which has no solution, the entries
\* are the numerators.
LinSolve(M, v) ==
  CHOOSE sol \in
    { [j \in 1..Mv.cols |->
         (CHOOSE dj \in { Det(Mj) : Mj \in { ReplaceColumn(Mv, j, vv) } } : TRUE)
         \div (IF dM = 0 THEN 1 ELSE dM)] :
        Mv \in { M }, vv \in { v }, dM \in { Det(M) } } : TRUE

------------------------------------------------------------------------------
(* The constraint objects.                                                  *)

\* Constraint::getConstraintSize of the object at 0-based index i
getConstraintSize(cs, i) == cs[i + 1].sizeOfConstraint

\* ConstraintSet::size(): the total row count
size == Len(constraintType)

NewConstraint(type, bodyIds, frames, dirs) ==
  [type |-> type, bodyIds |-> bodyIds, bodyFrames |-> frames, dirs |-> dirs,
   sizeOfConstraint |-> Len(dirs), rowInSystem |-> 0,
   baumgarteEnabled |-> FALSE, baumgarteParam |-> 1, bindCalls |-> 0]

\* Constraint::addToConstraintSet(rowIndex)
addToConstraintSet(c, row) == [c EXCEPT !.rowInSystem = row]

\* ContactConstraint::appendNormalVector / LoopConstraint::appendConstraintAxis
appendDirection(c, d) ==
  [c EXCEPT !.dirs = Append(@, d), !.sizeOfConstraint = @ + 1]

\* again tells that the call before was a call of the same operation (kept for
\* clear only)
NoCall == [op |-> "none", body |-> 0, point |-> 0, dirs |-> <<>>, allow |-> FALSE,
           pair |-> <<0, 0>>, frames |-> <<Frame(0, 0), Frame(0, 0)>>,
           stab |-> <<FALSE, 0>>, csize |-> 0, again |-> FALSE, args |-> <<>>,
           in |-> [Hm |-> ZeroMat(0, 0), J |-> <<>>, Cv |-> <<>>, gam |-> <<>>,
                   e |-> <<>>, ed |-> <<>>, tau |-> <<>>, QDotMinus |-> <<>>]]

\* A build with NDEBUG, where assert(cond) expands to nothing
AssertCompiledOut(cond) == FALSE

\* assert(cond): the model is of a build with assertions compiled in, where a
\* failed assert terminates the process
AssertFails(cond) == ~cond

TheCall(op) == [NoCall EXCEPT !.op = op]

\* The process terminates: the registry is left as it was.
Fatal(c) ==
  /\ aborted' = TRUE
  /\ call' = c
  /\ UNCHANGED <<regVars, rowVars, sysVars, kokVars, nsVars, bound,
                 linear_solver, QDDot, QDotPlus, log, envVars, ret>>

------------------------------------------------------------------------------
(* Registration.                                                            *)

\* The state of the registry after the multi-normal AddContactConstraint,
\* with the value it returns; oob tells that a write of the initialising
\* loop was outside the resized arrays.
ContactConstraintAdded(bodyId, bodyPoint, worldNormals, g) ==
  LET insertAtRowInG == size
      ccIndex == Len(contactConstraints)
      obj == addToConstraintSet(
               NewConstraint("contact", <<bodyId>>, <<Frame(bodyPoint, 0)>>,
                             worldNormals),
               insertAtRowInG)
      cons == Append(constraints, obj)
      cIndex == Len(cons) - 1
      rowsInG == insertAtRowInG + getConstraintSize(cons, ccIndex)
      n == getConstraintSize(cons, cIndex)
      init(v) == SetRows(conservativeResize(v, rowsInG, g), insertAtRowInG, n, 0)
  IN  [constraints |-> cons,
       contactConstraints |-> Append(contactConstraints, cIndex),
       constraintType |-> PushBack(constraintType, n, ConstraintTypeContact),
       name |-> PushBack(name, n, "contact"),
       err |-> init(err), errd |-> init(errd), force |-> init(force),
       impulse |-> init(impulse), v_plus |-> init(v_plus),
       d_multdof3_u |-> ZeroVec(rowsInG),
       oob |-> insertAtRowInG + n > rowsInG,
       ret |-> rowsInG - 1]

\* Whether the single-normal AddContactConstraint appends to the last contact
\* constraint.
ContactAppends(body_id, body_point, allowConstraintAppending) ==
  /\ Len(contactConstraints) > 0
  /\ allowConstraintAppending
  /\ LET i == contactConstraints[Len(contactConstraints)]
     IN  /\ constraints[i + 1].bodyIds[1] = body_id
         /\ Abs(body_point - constraints[i + 1].bodyFrames[1].r) < EpsTol

\* Whether the single-axis AddLoopConstraint appends to the last loop constraint.
LoopAppends(idPredecessor, idSuccessor, XPredecessor, XSuccessor, allowConstraintAppending) ==
  /\ Len(loopConstraints) > 0
  /\ allowConstraintAppending
  /\ LET c == constraints[loopConstraints[Len(loopConstraints)] + 1]
     IN  /\ c.bodyIds[1] = idPredecessor
         /\ c.bodyIds[2] = idSuccessor
         /\ ~ (Abs(XPredecessor.r - c.bodyFrames[1].r) > EpsTol)
         /\ ~ (Abs(XSuccessor.r - c.bodyFrames[2].r) > EpsTol)
         /\ ~ (Abs(XPredecessor.E - c.bodyFrames[1].E) > EpsTol)
         /\ ~ (Abs(XSuccessor.E - c.bodyFrames[2].E) > EpsTol)

setBaumgarte(c, stab) ==
  [c EXCEPT !.baumgarteParam = stab[2], !.baumgarteEnabled = stab[1]]

\* Settings that only the call creating the constraint sets
StabilisedWhenCreated(cons, idx, stab) ==
  IF Len(cons[idx + 1].dirs) > 1 THEN cons
  ELSE [cons EXCEPT ![idx + 1] = setBaumgarte(@, stab)]

\* loopConstraints[idx]->setBaumgarteTimeConstant (stabParam);
\* loopConstraints[idx]->setEnableBaumgarteStabilization (enableStab);
\* after the axis was appended or the constraint created
Stabilised(cons, idx, stab) == [cons EXCEPT ![idx + 1] = setBaumgarte(@, stab)]

\* The resize-and-initialise sequence for one new row at insertAtRowInG.
OneRow(v, insertAtRowInG, g) ==
  SetRow(conservativeResize(v, insertAtRowInG + 1, g), insertAtRowInG, 0)

Registered(r, c) ==
  /\ constraints' = r.constraints
  /\ contactConstraints' = r.contactConstraints
  /\ loopConstraints' = r.loopConstraints
  /\ constraintType' = r.constraintType
  /\ name' = r.name
  /\ err' = r.err /\ errd' = r.errd /\ force' = r.force
  /\ impulse' = r.impulse /\ v_plus' = r.v_plus
  /\ d_multdof3_u' = r.d_multdof3_u
  /\ ret' = r.ret
  /\ call' = c
  /\ UNCHANGED <<sysVars, kokVars, nsVars, bound, linear_solver, QDDot,
                 QDotPlus, log, envVars>>

\* AddContactConstraint(bodyId, bodyPoint, worldNormals, name)
AddContactConstraintNormals(bodyId, bodyPoint, worldNormals) ==
  /\ ~aborted
  /\ size + Len(worldNormals) <= MaxRows
  /\ Len(constraints) < MaxConstraints
  /\ \E g \in Val, crash \in BOOLEAN :
     LET r == ContactConstraintAdded(bodyId, bodyPoint, worldNormals, g)
     IN  \* a write outside the arrays is undefined: the process may die of it
         /\ crash => r.oob
         /\ Registered(r @@ [loopConstraints |-> loopConstraints],
                       [TheCall("AddContactConstraintNormals") EXCEPT
                          !.body = bodyId, !.point = bodyPoint,
                          !.dirs = worldNormals])
         /\ aborted' = crash

\* AddContactConstraint(body_id, body_point, world_normal, name, allowAppending)
AddContactConstraint(body_id, body_point, world_normal, allowConstraintAppending) ==
  LET c == [TheCall("AddContactConstraint") EXCEPT
              !.body = body_id, !.point = body_point,
              !.dirs = <<world_normal>>, !.allow = allowConstraintAppending]
      insertAtRowInG == size
      rowsInG == insertAtRowInG + 1
  IN
  /\ ~aborted
  /\ size + 1 <= MaxRows
  /\ ContactAppends(body_id, body_point, allowConstraintAppending)
       \/ Len(constraints) < MaxConstraints
  /\ IF AssertFails(bound = FALSE) THEN Fatal(TheCall(c.op))
     ELSE IF ContactAppends(body_id, body_point, allowConstraintAppending)
     THEN \E g \in Val :
          LET i == contactConstraints[Len(contactConstraints)]
          IN  /\ Registered(
                   [constraints |->
                      [constraints EXCEPT ![i + 1] = appendDirection(@, world_normal)],
                    contactConstraints |-> contactConstraints,
                    loopConstraints |-> loopConstraints,
                    constraintType |-> Append(constraintType, ConstraintTypeContact),
                    name |-> Append(name, "contact"),
                    err |-> OneRow(err, insertAtRowInG, g),
                    errd |-> OneRow(errd, insertAtRowInG, g),
                    force |-> OneRow(force, insertAtRowInG, g),
                    impulse |-> OneRow(impulse, insertAtRowInG, g),
                    v_plus |-> OneRow(v_plus, insertAtRowInG, g),
                    d_multdof3_u |-> ZeroVec(rowsInG),
                    ret |-> rowsInG - 1], c)
              /\ aborted' = FALSE
     ELSE \E g \in Val, crash \in BOOLEAN :
          LET r == ContactConstraintAdded(body_id, body_point, <<world_normal>>, g)
          IN  /\ crash => r.oob
              /\ Registered(r @@ [loopConstraints |-> loopConstraints], c)
              /\ aborted' = crash

\* AddLoopConstraint(..., constraintAxisInPredecessor, ..., allowAppending, ...)
AddLoopConstraint(idPredecessor, idSuccessor, XPredecessor, XSuccessor, constraintAxisInPredecessor, stab, allowConstraintAppending) ==
  LET c == [TheCall("AddLoopConstraint") EXCEPT
              !.pair = <<idPredecessor, idSuccessor>>,
              !.frames = <<XPredecessor, XSuccessor>>,
              !.dirs = <<constraintAxisInPredecessor>>, !.stab = stab,
              !.allow = allowConstraintAppending]
      insertAtRowInG == size
      rowsInG == insertAtRowInG + 1
      constraintAdded == LoopAppends(idPredecessor, idSuccessor, XPredecessor,
                                     XSuccessor, allowConstraintAppending)
      idx == IF constraintAdded THEN loopConstraints[Len(loopConstraints)]
             ELSE Len(constraints)
      cons == IF constraintAdded
              THEN [constraints EXCEPT
                      ![idx + 1] = appendDirection(@, constraintAxisInPredecessor)]
              ELSE Append(constraints,
                     addToConstraintSet(
                       NewConstraint("loop", <<idPredecessor, idSuccessor>>,
                                     <<XPredecessor, XSuccessor>>,
                                     <<constraintAxisInPredecessor>>),
                       insertAtRowInG))
  IN
  /\ ~aborted
  /\ size + 1 <= MaxRows
  /\ constraintAdded \/ Len(constraints) < MaxConstraints
  /\ IF AssertFails(bound = FALSE) THEN Fatal(TheCall(c.op))
     ELSE \E g \in Val :
          /\ Registered(
               [constraints |-> Stabilised(cons, idx, stab),
                contactConstraints |-> contactConstraints,
                loopConstraints |-> IF constraintAdded THEN loopConstraints
                                    ELSE Append(loopConstraints, idx),
                constraintType |-> Append(constraintType, ConstraintTypeLoop),
                name |-> Append(name, "loop"),
                err |-> OneRow(err, insertAtRowInG, g),
                errd |-> OneRow(errd, insertAtRowInG, g),
                force |-> OneRow(force, insertAtRowInG, g),
                impulse |-> OneRow(impulse, insertAtRowInG, g),
                v_plus |-> OneRow(v_plus, insertAtRowInG, g),
                d_multdof3_u |-> ZeroVec(rowsInG),
                ret |-> rowsInG - 1], c)
          /\ aborted' = FALSE

\* AddLoopConstraint(..., constraintAxesInPredecessor, ...)
AddLoopConstraintAxes(idPredecessor, idSuccessor, XPredecessor, XSuccessor, constraintAxesInPredecessor, stab) ==
  LET c == [TheCall("AddLoopConstraintAxes") EXCEPT
              !.pair = <<idPredecessor, idSuccessor>>,
              !.frames = <<XPredecessor, XSuccessor>>,
              !.dirs = constraintAxesInPredecessor, !.stab = stab]
      insertAtRowInG == size
      n == Len(constraintAxesInPredecessor)
      rowsInG == insertAtRowInG + n
      idx == Len(constraints)
      obj == setBaumgarte(
               addToConstraintSet(
                 NewConstraint("loop", <<idPredecessor, idSuccessor>>,
                               <<XPredecessor, XSuccessor>>,
                               constraintAxesInPredecessor),
                 insertAtRowInG), stab)
      init(v, g) == SetRows(conservativeResize(v, rowsInG, g), insertAtRowInG, n, 0)
  IN
  /\ ~aborted
  /\ size + n <= MaxRows
  /\ Len(constraints) < MaxConstraints
  /\ IF AssertFails(bound = FALSE) THEN Fatal(TheCall(c.op))
     ELSE \E g \in Val :
          /\ Registered(
               [constraints |-> Append(constraints, obj),
                contactConstraints |-> contactConstraints,
                loopConstraints |-> Append(loopConstraints, idx),
                constraintType |-> PushBack(constraintType, n, ConstraintTypeLoop),
                name |-> PushBack(name, n, "loop"),
                err |-> init(err, g), errd |-> init(errd, g),
                force |-> init(force, g), impulse |-> init(impulse, g),
                v_plus |-> init(v_plus, g),
                d_multdof3_u |-> ZeroVec(rowsInG),
                ret |-> rowsInG - 1], c)
          /\ aborted' = FALSE

\* AddCustomConstraint(customConstraint): the object supplied has csize rows
AddCustomConstraint(csize) ==
  LET c == [TheCall("AddCustomConstraint") EXCEPT !.csize = csize]
      insertAtRowInG == size
      rowsInG == insertAtRowInG + csize
      obj == addToConstraintSet(
               NewConstraint("custom", <<>>, <<>>, [i \in 1..csize |-> "c"]),
               insertAtRowInG)
      init(v, g) == SetRows(conservativeResize(v, rowsInG, g), insertAtRowInG, csize, 0)
  IN
  /\ ~aborted
  /\ size + csize <= MaxRows
  /\ Len(constraints) < MaxConstraints
  /\ \E g \in Val : Registered(
       [constraints |-> Append(constraints, obj),
        contactConstraints |-> contactConstraints,
        loopConstraints |-> loopConstraints,
        constraintType |-> PushBack(constraintType, csize, ConstraintTypeCustom),
        name |-> PushBack(name, csize, "custom"),
        err |-> init(err, g), errd |-> init(errd, g), force |-> init(force, g),
        impulse |-> init(impulse, g), v_plus |-> init(v_plus, g),
        d_multdof3_u |-> ZeroVec(rowsInG),
        ret |-> rowsInG - 1], c)
  /\ aborted' = FALSE

------------------------------------------------------------------------------
(* Bind and clear.                                                          *)

\* Constraint::bind(model) on every registered constraint
BindAll(cs) == [i \in 1..Len(cs) |-> [cs[i] EXCEPT !.bindCalls = @ + 1]]

\* A Bind without its guard
BindNeverRefused == FALSE

\* The guard of Bind: assert (bound == false) and if (bound) abort()
BindRefused == AssertFails(bound = FALSE) \/ bound

\* std::vector::resize(n, zero): the elements kept stay, the new ones are zero
VecResize(v, n) == [i \in 1..n |-> IF i <= Len(v) THEN v[i] ELSE 0]

Bind(mBodies_size, dof_count) ==
  LET c == TheCall("Bind")
      n_constr == size
  IN
  /\ ~aborted
  /\ IF BindRefused THEN Fatal(c)
     ELSE /\ constraints' = BindAll(constraints)
          /\ H' = ZeroMat(dof_count, dof_count)
          /\ C' = ZeroVec(dof_count)
          /\ gamma' = ZeroVec(n_constr)
          /\ G' = ZeroMat(n_constr, dof_count)
          /\ A' = ZeroMat(dof_count + n_constr, dof_count + n_constr)
          /\ b' = ZeroVec(dof_count + n_constr)
          /\ x' = ZeroVec(dof_count + n_constr)
          /\ call' = c
          /\ GT_qr_Q' = ZeroMat(dof_count, dof_count)
          /\ Y' = ZeroMat(dof_count, n_constr)
          /\ UNCHANGED <<contactConstraints, loopConstraints, name, constraintType,
                         err, errd, force, impulse, v_plus, linear_solver,
                         QDDot, QDotPlus, log, envVars>>
          /\ IF n_constr > dof_count
             THEN \* Z = MatrixNd::Zero (dof_count, dof_count - G.rows()) has a
                  \* negative column count: the process dies there
                  /\ aborted' = TRUE
                  /\ UNCHANGED <<kokVars, d_multdof3_u, bound, ret, Z, qddot_y,
                                 qddot_z>>
             ELSE /\ Z' = ZeroMat(dof_count, dof_count - n_constr)
                  /\ qddot_y' = ZeroVec(dof_count)
                  /\ qddot_z' = ZeroVec(dof_count)
                  /\ K' = ZeroMat(n_constr, n_constr)
                  /\ a' = ZeroVec(n_constr)
                  /\ QDDot_t' = ZeroVec(dof_count)
                  /\ f_t' = VecResize(f_t, n_constr)
                  /\ point_accel_0' = VecResize(point_accel_0, n_constr)
                  /\ QDDot_0' = ZeroVec(dof_count)
                  /\ f_ext_constraints' = VecResize(f_ext_constraints, mBodies_size)
                  /\ d_pA' = ZeroVec(mBodies_size)
                  /\ d_a' = ZeroVec(mBodies_size)
                  /\ d_u' = ZeroVec(mBodies_size)
                  /\ d_multdof3_u' = ZeroVec(mBodies_size)
                  /\ bound' = TRUE
                  /\ ret' = 1
                  /\ aborted' = FALSE

\* A vector emptied instead of zeroed
VecEmptied(v) == <<>>

\* A vector shortened by one entry instead of zeroed
VecShortened(v) == SubSeq(v, 1, Len(v) - 1)

\* Matrix / vector setZero(): the dimensions stay
MatSetZero(M) == ZeroMat(M.rows, M.cols)
VecSetZero(v) == ZeroVec(Len(v))

clear ==
  /\ ~aborted
  /\ force' = VecSetZero(force)
  /\ impulse' = VecSetZero(impulse)
  /\ H' = MatSetZero(H)
  /\ C' = VecSetZero(C)
  /\ gamma' = VecSetZero(gamma)
  /\ G' = MatSetZero(G)
  /\ A' = MatSetZero(A)
  /\ b' = VecSetZero(b)
  /\ x' = VecSetZero(x)
  /\ QDDot_t' = VecSetZero(QDDot_t)
  /\ a' = VecSetZero(a)
  /\ K' = MatSetZero(K)
  /\ point_accel_0' = VecSetZero(point_accel_0)
  /\ f_t' = VecSetZero(f_t)
  /\ QDDot_0' = VecSetZero(QDDot_0)
  /\ f_ext_constraints' = VecSetZero(f_ext_constraints)
  /\ d_pA' = VecSetZero(d_pA)
  /\ d_a' = VecSetZero(d_a)
  /\ d_u' = VecSetZero(d_u)
  /\ call' = [TheCall("clear") EXCEPT !.again = (call.op = "clear")]
  /\ UNCHANGED <<regVars, err, errd, v_plus, d_multdof3_u, nsVars, bound,
                 linear_solver, QDDot, QDotPlus, log, envVars, aborted, ret>>

------------------------------------------------------------------------------
(* System assembly and the direct solve.                                    *)
(* The quantities the collaborators supply are inputs: every constraint     *)
(* reports the position error e and the velocity error v on each of its     *)
(* rows, the Jacobian row of row r is the unit vector of coordinate         *)
(* (r mod dof_count), H is the identity, C is v on every coordinate, the    *)
(* raw gamma of a row is v.  The Baumgarte time constant is held as the     *)
(* integer 1/tau.                                                           *)

\* 0-based rows [rowInSystem, rowInSystem + sizeOfConstraint) of a constraint
RowsOf(c) == c.rowInSystem .. (c.rowInSystem + c.sizeOfConstraint - 1)

\* The rows some constraint writes, and the last constraint that writes row r
CoveredRows == UNION { RowsOf(constraints[i]) : i \in 1..Len(constraints) }
LastCover(r) ==
  CHOOSE i \in 1..Len(constraints) :
    /\ r \in RowsOf(constraints[i])
    /\ \A j \in 1..Len(constraints) : r \in RowsOf(constraints[j]) => j <= i

\* Every constraint writes val to its rows of the vector vec
PerRow(vec, val) ==
  [i \in 1..Len(vec) |-> IF i - 1 \in CoveredRows THEN val ELSE vec[i]]

\* CalcConstraintsJacobian: every constraint writes its rows of G
CalcConstraintsJacobian(M) ==
  [M EXCEPT !.e = [ij \in DOMAIN M.e |->
     IF ij[1] - 1 \in CoveredRows
     THEN (IF ij[2] = ((ij[1] - 1) % DofCount) + 1 THEN 1 ELSE 0)
     ELSE M.e[ij]]]

\* calcGamma followed by addInBaumgarteStabilizationForces on row r
GammaOfRow(r, v, errv, errdv) ==
  LET c == constraints[LastCover(r)]
  IN  v + (IF c.baumgarteEnabled
           THEN (-2) * c.baumgarteParam * errdv[r + 1]
                - c.baumgarteParam * c.baumgarteParam * errv[r + 1]
           ELSE 0)

Identity(n) == [rows |-> n, cols |-> n,
                e |-> [ij \in (1..n) \X (1..n) |-> IF ij[1] = ij[2] THEN 1 ELSE 0]]

\* SolveConstrainedSystemDirect builds A: H, G^T and G are copied in, the
\* lower right block is left as it is
BuildA(Aold, Hm, Gm) ==
  [Aold EXCEPT !.e = [ij \in DOMAIN Aold.e |->
     IF ij[1] <= Hm.rows /\ ij[2] <= Hm.cols THEN Hm.e[ij]
     ELSE IF ij[1] <= Hm.rows /\ ij[2] - Hm.cols <= Gm.rows
          THEN Gm.e[<<ij[2] - Hm.cols, ij[1]>>]
     ELSE IF ij[2] <= Hm.cols /\ ij[1] - Hm.rows <= Gm.rows
          THEN Gm.e[<<ij[1] - Hm.rows, ij[2]>>]
     ELSE Aold.e[ij]]]

\* The solution of [[I, G^T], [G, 0]] x = [c; gamma] for a G whose rows are
\* distinct unit vectors; g stands for the entries a singular system leaves
\* undetermined.
SolveKKT(Gm, c, gam, g) ==
  LET n == Len(c)
      rowOf(k) == { r \in 1..Gm.rows : Gm.e[<<r, k>>] # 0 }
      colOf(r) == { k \in 1..n : Gm.e[<<r, k>>] # 0 }
  IN  [i \in 1..(n + Gm.rows) |->
         IF i <= n
         THEN (IF rowOf(i) = {} THEN c[i]
               ELSE gam[CHOOSE r \in rowOf(i) : TRUE])
         ELSE (IF colOf(i - n) = {} THEN g
               ELSE LET k == CHOOSE k \in colOf(i - n) : TRUE
                    IN  c[k] - gam[i - n])]

\* An access outside a buffer during the assembly or the solve
SolveOutOfBounds ==
  \/ \E r \in CoveredRows : r >= G.rows \/ r >= Len(gamma) \/ r >= Len(err)
                            \/ r >= Len(errd)
  \/ size > Len(x) - DofCount
  \/ size > Len(force)

\* NonlinearEffects writes C; a C of another length is written out of bounds
NonlinearEffects(v) == IF Len(C) = DofCount THEN [i \in 1..DofCount |-> v] ELSE C

\* The assembly and the solve of ForwardDynamicsConstraintsDirect, with the
\* errors e, v the constraints report, the generalised force tau, the value g
\* of an undetermined entry and the outcome of an access outside a buffer.
\* As in the code, every step reads what the steps before it have written.
ConstrainedSystemSolved(e, v, tau, g, crash) ==
  /\ crash => SolveOutOfBounds
  \* CalcConstrainedSystemVariables
  /\ C' = NonlinearEffects(v)
  /\ H' = Identity(DofCount)
  /\ G' = CalcConstraintsJacobian(G)
  /\ err' = PerRow(err, e)
  /\ errd' = PerRow(errd, v)
  /\ QDDot_0' = VecSetZero(QDDot_0)
  /\ gamma' = [i \in 1..Len(gamma) |->
                 IF i - 1 \in CoveredRows THEN GammaOfRow(i - 1, v, err', errd')
                 ELSE gamma[i]]
  \* SolveConstrainedSystemDirect (H, G, Tau - C, gamma, ...)
  /\ A' = BuildA(A, H', G')
  /\ b' = [i \in 1..Len(b) |->
             IF i <= DofCount THEN tau - C'[i] ELSE gamma'[i - DofCount]]
  /\ x' = SolveKKT(G', [i \in 1..DofCount |-> tau - C'[i]], gamma', g)
  \* copy back
  /\ QDDot' = [i \in 1..DofCount |-> x'[i]]
  /\ force' = [i \in 1..Len(force) |->
                 IF i > size THEN force[i]
                 ELSE IF DofCount + i <= Len(x') THEN - x'[DofCount + i]
                 ELSE g]
  /\ aborted' = crash

\* ForwardDynamicsConstraintsDirect (model, Q, QDot, Tau, CS, QDDot)
ForwardDynamicsConstraintsDirect ==
  /\ ~aborted
  /\ call' = TheCall("ForwardDynamicsConstraintsDirect")
  /\ UNCHANGED <<regVars, impulse, v_plus, d_multdof3_u, K, a, QDDot_t, f_t,
                 point_accel_0, f_ext_constraints, d_pA, d_a, d_u, nsVars, bound,
                 linear_solver, QDotPlus, log, envVars, ret>>
  /\ \E in \in SolveInputs :
       IF AssertFails(H.cols = DofCount /\ H.rows = DofCount)
       THEN \* CalcConstrainedSystemVariables stops after NonlinearEffects
            /\ C' = NonlinearEffects(in[2])
            /\ aborted' = TRUE
            /\ UNCHANGED <<H, G, err, errd, QDDot_0, gamma, A, b, x, QDDot, force>>
       ELSE IF AssertFails(Len(err) = size)
       THEN \* CalcConstraintsPositionError stops; C, H and G are written
            /\ C' = NonlinearEffects(in[2])
            /\ H' = Identity(DofCount)
            /\ G' = CalcConstraintsJacobian(G)
            /\ aborted' = TRUE
            /\ UNCHANGED <<err, errd, QDDot_0, gamma, A, b, x, QDDot, force>>
       ELSE \E g \in Val, crash \in BOOLEAN :
              ConstrainedSystemSolved(in[1], in[2], in[3], g, crash)

------------------------------------------------------------------------------
(* System assembly and the three solve strategies on the results the        *)
(* collaborators supply.  An input in of a dynamics call holds what the     *)
(* collaborators and the constraints compute from Q, QDot: the mass matrix  *)
(* Hm, the bias force Cv, the Jacobian row J[r+1], the raw gamma gam[r+1],  *)
(* the position error e[r+1] and the velocity error ed[r+1] of row r; and   *)
(* the arguments Tau and QDotMinus.                                         *)

Identity2 == Mat(<<<<1, 0>>, <<0, 1>>>>)

\* Mass matrices (symmetric positive definite) and Jacobians (every leading
\* set of rows linearly independent; the second has rows that are not
\* orthogonal, the third needs a Householder reflection)
MassMatrices == { Identity2, Mat(<<<<2, 1>>, <<1, 1>>>>) }
Jacobians == { <<<<1, 0>>, <<0, 1>>>>, <<<<1, 0>>, <<1, 1>>>>,
               <<<<0, 1>>, <<1, 0>>>> }

\* The well-posed systems whose solutions are integers for every leading set
\* of rows of the Jacobian: the first row g has g H^-1 g^T = 1
WellPosed(h, j) ==
  \E hi \in { LinSolve(h, <<1, 0>>) } : \E hj \in { LinSolve(h, <<0, 1>>) } :
    j[1][1] * (j[1][1] * hi[1] + j[1][2] * hj[1])
    + j[1][2] * (j[1][1] * hi[2] + j[1][2] * hj[2]) = 1
DynInputs ==
  { [Hm |-> hj[1], J |-> hj[2], Cv |-> <<1, 0>>, gam |-> <<1, 2>>,
     e |-> <<1, 0>>, ed |-> <<0, 1>>, tau |-> <<1, 2>>, QDotMinus |-> <<1, 2>>,
     calls |-> MaxSolves, simple_math |-> sm] :
      hj \in { p \in MassMatrices \X Jacobians : WellPosed(p[1], p[2]) },
      sm \in BOOLEAN }

ValidSolvers == { LinearSolverPartialPivLU, LinearSolverColPivHouseholderQR,
                  LinearSolverHouseholderQR }

\* ConstraintSet::linear_solver is a public field the caller sets
SetSolver(ls) ==
  /\ ~aborted
  /\ linear_solver # ls
  /\ linear_solver' = ls
  /\ call' = TheCall("SetSolver")
  /\ UNCHANGED <<regVars, rowVars, sysVars, kokVars, nsVars, bound, QDDot,
                 QDotPlus, log, envVars, aborted, ret>>

\* assert (0) in the default branch of the switch over the solver
SolverRefused == AssertFails(linear_solver \in ValidSolvers)

\* CalcConstraintsJacobian with the rows J the constraints compute
ConstraintsJacobian(M, J) ==
  [M EXCEPT !.e = [ij \in DOMAIN M.e |->
     IF ij[1] - 1 \in CoveredRows THEN J[((ij[1] - 1) % Len(J)) + 1][ij[2]]
     ELSE M.e[ij]]]

\* Every constraint writes its rows of vec from the values vals
RowsWritten(vec, vals) ==
  [i \in 1..Len(vec) |->
     IF i - 1 \in CoveredRows THEN vals[((i - 1) % Len(vals)) + 1] ELSE vec[i]]

\* One entry <<step, index>> of the log per constraint, in constraint order
PerConstraint(step) == [i \in 1..Len(constraints) |-> <<step, i - 1>>]

\* calcGamma of constraint i-1, then its Baumgarte contribution when enabled
GammaSteps ==
  [i \in 1..Len(constraints) |->
     IF constraints[i].baumgarteEnabled
     THEN <<<<"calcGamma", i - 1>>, <<"addInBaumgarteStabilizationForces", i - 1>>>>
     ELSE <<<<"calcGamma", i - 1>>>>]

RECURSIVE Concat(_)
Concat(ss) == IF ss = <<>> THEN <<>> ELSE ss[1] \o Concat(Tail(ss))

\* The two places where CalcConstrainedSystemVariables can die
AssemblyStopsAtH == AssertFails(H.cols = DofCount /\ H.rows = DofCount)
AssemblyStopsAtErr == ~AssemblyStopsAtH /\ AssertFails(Len(err) = size)
AssemblyFails == AssemblyStopsAtH \/ AssemblyStopsAtErr

\* The steps of CalcConstrainedSystemVariables up to the first Jacobian
StepsToJacobian ==
  <<<<"NonlinearEffects", 0>>, <<"H.setZero", 0>>,
    <<"CompositeRigidBodyAlgorithm", 0>>>>
  \o [i \in 1..(NumBodies - 1) |-> <<"X_base", i>>]
  \o PerConstraint("calcConstraintJacobian")

\* The steps with gamma computed before the errors
StepsGammaFirst ==
  Concat(GammaSteps)
  \o PerConstraint("calcPositionError")
  \o PerConstraint("calcConstraintJacobian")
  \o PerConstraint("calcVelocityError")
  \o <<<<"QDDot_0.setZero", 0>>, <<"UpdateKinematicsCustom", 0>>>>

\* The steps of CalcConstrainedSystemVariables after the first Jacobian:
\* CalcConstraintsVelocityError evaluates the Jacobian once more
StepsAfterJacobian ==
  PerConstraint("calcPositionError")
  \o PerConstraint("calcConstraintJacobian")
  \o PerConstraint("calcVelocityError")
  \o <<<<"QDDot_0.setZero", 0>>, <<"UpdateKinematicsCustom", 0>>>>
  \o Concat(GammaSteps)

\* CalcConstrainedSystemVariables: what the registry holds when the function
\* returns or the process dies in it; Hn is what is left in H
Assembled(in, Hn) ==
  /\ C' = IF Len(C) = DofCount THEN in.Cv ELSE C
  /\ H' = IF AssemblyStopsAtH THEN H ELSE Hn
  /\ G' = IF AssemblyStopsAtH THEN G ELSE ConstraintsJacobian(G, in.J)
  /\ err' = IF AssemblyFails THEN err ELSE RowsWritten(err, in.e)
  /\ errd' = IF AssemblyFails THEN errd ELSE RowsWritten(errd, in.ed)
  /\ QDDot_0' = IF AssemblyFails THEN QDDot_0 ELSE VecSetZero(QDDot_0)
  /\ gamma' = IF AssemblyFails THEN gamma
              ELSE [i \in 1..Len(gamma) |->
                      IF i - 1 \in CoveredRows
                      THEN GammaOfRow(i - 1, in.gam[((i - 1) % Len(in.gam)) + 1],
                                      err', errd')
                      ELSE gamma[i]]
  /\ log' = IF AssemblyStopsAtH THEN <<<<"NonlinearEffects", 0>>>>
            ELSE IF AssemblyStopsAtErr THEN StepsToJacobian
            ELSE StepsToJacobian \o StepsAfterJacobian

\* A call with the arguments args is counted; the caller makes world.calls
\* calls at most
CountedArgs(op, in, args) ==
  /\ ~aborted
  /\ solves < world.calls
  /\ solves' = solves + 1
  /\ world' = world
  /\ call' = [TheCall(op) EXCEPT !.in = in, !.args = args]

CountedCall(op, in) == CountedArgs(op, in, <<>>)

\* A dynamics call leaves the vectors of the assembly functions alone
Counted(op, in) == CountedCall(op, in) /\ UNCHANGED callerVars

CalcConstrainedSystemVariables(in) ==
  /\ Counted("CalcConstrainedSystemVariables", in)
  /\ Assembled(in, in.Hm)
  /\ aborted' = AssemblyFails
  /\ UNCHANGED <<regVars, force, impulse, v_plus, d_multdof3_u, A, b, x, K, a,
                 QDDot_t, f_t, point_accel_0, f_ext_constraints, d_pA, d_a,
                 d_u, nsVars, bound, linear_solver, QDDot, QDotPlus, ret>>

\* SolveConstrainedSystemDirect: A, b and x as the function leaves them
SolveConstrainedSystemDirect(Hm, Gm, c, gam) ==
  /\ A' = BuildA(A, Hm, Gm)
  /\ b' = [i \in 1..Len(b) |-> IF i <= Len(c) THEN c[i] ELSE gam[i - Len(c)]]
  /\ x' = IF SolverRefused THEN x ELSE LinSolve(A', b')

Isqrt(v) == CHOOSE r \in 0..v : r * r = v

\* SparseFactorizeLTL: H = L^T L, the factor L left in the lower triangle
RECURSIVE FactorLTL(_, _)
FactorLTL(M, k) ==
  IF k = 0 THEN M
  ELSE LET d == Isqrt(M.e[<<k, k>>])
           l(i) == M.e[<<k, i>>] \div d
       IN  FactorLTL([M EXCEPT !.e = [ij \in DOMAIN M.e |->
                        IF ij = <<k, k>> THEN d
                        ELSE IF ij[1] = k /\ ij[2] < k THEN l(ij[2])
                        ELSE IF ij[1] < k /\ ij[2] <= ij[1]
                             THEN M.e[ij] - l(ij[1]) * l(ij[2])
                        ELSE M.e[ij]]], k - 1)

Lower(M) == [M EXCEPT !.e = [ij \in DOMAIN M.e |->
                               IF ij[2] <= ij[1] THEN M.e[ij] ELSE 0]]

\* SparseSolveLTx solves L^T x = v, SparseSolveLx solves L x = v
SparseSolveLTx(Hf, v) == LinSolve(MatT(Lower(Hf)), v)
SparseSolveLx(Hf, v) == LinSolve(Lower(Hf), v)

Column(M, j) == [i \in 1..M.rows |-> M.e[<<i, j>>]]
FromColumns(n, cs) ==
  [rows |-> n, cols |-> Len(cs),
   e |-> [ij \in (1..n) \X (1..Len(cs)) |-> cs[ij[2]][ij[1]]]]

\* SolveConstrainedSystemRangeSpaceSparse on the factor Hf that
\* SparseFactorizeLTL has left in H: the reduced system is left in K and a;
\* lambda and qddot are written to the caller's vectors
SolveConstrainedSystemRangeSpaceSparse(Hf, Gm, c, gam, lambda, qddot) ==
  \E Ym \in { FromColumns(Gm.cols,
                [i \in 1..Gm.rows |-> SparseSolveLTx(Hf, Column(MatT(Gm), i))]) } :
  \E z \in { SparseSolveLTx(Hf, c) } :
    /\ K' = MatMul(MatT(Ym), Ym)
    /\ a' = VecSub(gam, MatVec(MatT(Ym), z))
    /\ lambda = LinSolve(K', a')
    /\ \E t \in { SparseSolveLTx(Hf, VecAdd(c, MatVec(MatT(Gm), lambda))) } :
         qddot = SparseSolveLx(Hf, t)

\* HouseholderQR::householderQ of a matrix with dof_count = 2 rows: the one
\* reflection that maps the first column x onto a multiple of the first unit
\* vector; none when the column is such a multiple already.  Defined for the
\* columns whose norm is an integer.
HouseholderQ(M) ==
  IF M.cols = 0 \/ M.e[<<2, 1>>] = 0 THEN Identity2
  ELSE IF M.e[<<1, 1>>] = 0
       THEN LET sg == IF M.e[<<2, 1>>] > 0 THEN 1 ELSE -1
            IN  Mat(<<<<0, - sg>>, <<- sg, 0>>>>)
  ELSE CHOOSE q \in {} : TRUE

\* GT_qr.compute (G^T); GT_qr_Q = GT_qr.householderQ(); Y and Z are its blocks
NullSpaceBasis(Gm) ==
  /\ GT_qr_Q' = HouseholderQ(MatT(Gm))
  /\ Y' = Block(GT_qr_Q', 0, 0, DofCount, Gm.rows)
  /\ Z' = Block(GT_qr_Q', 0, Gm.rows, DofCount, DofCount - Gm.rows)

\* SolveConstrainedSystemNullSpace: qddot_y and qddot_z as the function leaves
\* them; qddot and lambda are the values returned
SolveConstrainedSystemNullSpace(Hm, Gm, c, gam) ==
  /\ qddot_y' = IF SolverRefused THEN qddot_y ELSE LinSolve(MatMul(Gm, Y'), gam)
  /\ qddot_z' = IF SolverRefused THEN qddot_z
                ELSE LinSolve(MatMul(MatT(Z'), MatMul(Hm, Z')),
                              MatVec(MatT(Z'),
                                     VecSub(c, MatVec(Hm, MatVec(Y', qddot_y')))))

NullSpaceQDDot == VecAdd(MatVec(Y', qddot_y'), MatVec(Z', qddot_z'))

\* The second switch assigns lambda, except in the PartialPivLU case of a
\* build with RBDL_USE_SIMPLE_MATH (in.simple_math), which solves for qddot_y
\* once more
LambdaWritten(in) == ~ (in.simple_math /\ linear_solver = LinearSolverPartialPivLU)
NullSpaceLambda(Hm, Gm, c, qdd) ==
  LinSolve(MatMul(Gm, Y'), MatVec(MatT(Y'), VecSub(MatVec(Hm, qdd), c)))

\* The multiplier of row i stored with the sign of x
MultiplierOfRow(xv, i) == xv[DofCount + i]

\* CS.force[i] = -CS.x[model.dof_count + i] (i is 1-based here)
ForceOfRow(xv, i) == - xv[DofCount + i]

\* ForwardDynamicsConstraintsDirect on the input in
ForwardDynamicsConstraintsDirectIn(in) ==
  /\ Counted("ForwardDynamicsConstraintsDirect", in)
  /\ Assembled(in, in.Hm)
  /\ UNCHANGED <<regVars, impulse, v_plus, d_multdof3_u, K, a, QDDot_t, f_t,
                 point_accel_0, f_ext_constraints, d_pA, d_a, d_u, nsVars,
                 bound, linear_solver, QDotPlus, ret>>
  /\ IF AssemblyFails
     THEN aborted' = TRUE /\ UNCHANGED <<A, b, x, QDDot, force>>
     ELSE /\ SolveConstrainedSystemDirect(H', G', VecSub(in.tau, C'), gamma')
          /\ aborted' = SolverRefused
          /\ IF SolverRefused THEN UNCHANGED <<QDDot, force>>
             ELSE /\ QDDot' = [i \in 1..DofCount |-> x'[i]]
                  /\ force' = [i \in 1..Len(force) |->
                                 IF i <= size THEN ForceOfRow(x', i)
                                 ELSE force[i]]

ForwardDynamicsConstraintsRangeSpaceSparse(in) ==
  /\ Counted("ForwardDynamicsConstraintsRangeSpaceSparse", in)
  /\ UNCHANGED <<regVars, impulse, v_plus, d_multdof3_u, A, b, x, QDDot_t, f_t,
                 point_accel_0, f_ext_constraints, d_pA, d_a, d_u, nsVars,
                 bound, linear_solver, QDotPlus, ret>>
  /\ aborted' = AssemblyFails
  /\ IF AssemblyFails
     THEN Assembled(in, in.Hm) /\ UNCHANGED <<K, a, QDDot, force>>
     ELSE /\ Assembled(in, FactorLTL(in.Hm, in.Hm.rows))
          /\ \E c \in { VecSub(in.tau, C') } :
               SolveConstrainedSystemRangeSpaceSparse(H', G', c, gamma', force', QDDot')

ForwardDynamicsConstraintsNullSpace(in) ==
  /\ Counted("ForwardDynamicsConstraintsNullSpace", in)
  /\ Assembled(in, in.Hm)
  /\ UNCHANGED <<regVars, impulse, v_plus, d_multdof3_u, A, b, x, K, a, QDDot_t,
                 f_t, point_accel_0, f_ext_constraints, d_pA, d_a, d_u, bound,
                 linear_solver, QDotPlus, ret>>
  /\ IF AssemblyFails
     THEN aborted' = TRUE /\ UNCHANGED <<nsVars, QDDot, force>>
     ELSE /\ NullSpaceBasis(G')
          /\ SolveConstrainedSystemNullSpace(H', G', VecSub(in.tau, C'), gamma')
          /\ aborted' = SolverRefused
          /\ IF SolverRefused THEN UNCHANGED <<QDDot, force>>
             ELSE /\ QDDot' = NullSpaceQDDot
                  /\ force' = IF LambdaWritten(in)
                              THEN NullSpaceLambda(H', G', VecSub(in.tau, C'), QDDot')
                              ELSE force

------------------------------------------------------------------------------
(* The assembly of the configuration and of the velocity.  The position     *)
(* error of row r at the configuration q is slope * J[r] * (q - target),    *)
(* and J[r] is the Jacobian row the constraint reports: with slope = 1 the  *)
(* reported Jacobian is the derivative of the error, with slope = 2 the     *)
(* Gauss-Newton step overshoots.                                            *)

QSize == DofCount   \* model.q_size: the model has no spherical joint
MaxIter == 3        \* largest max_iter passed to CalcAssemblyQ

AsmInputs ==
  { [Hm |-> Identity2, J |-> j, Cv |-> <<1, 0>>, gam |-> <<1, 2>>,
     e |-> <<1, 0>>, ed |-> <<0, 1>>, tau |-> <<1, 2>>, QDotMinus |-> <<1, 2>>,
     slope |-> k, target |-> <<1, 1>>, calls |-> MaxSolves,
     simple_math |-> FALSE] :
       j \in { g \in Jacobians : g[1] = <<1, 0>> }, k \in {1, 2} }

\* The vectors <<Q, QDot, x>> the caller passes for the outputs: of the right
\* sizes, or one of them too short
CallerVectors == { <<<<7, 7>>, <<7, 7>>, <<7, 7>>>>, <<<<7>>, <<7, 7>>, <<7, 7>>>>,
                   <<<<7, 7>>, <<7>>, <<7, 7>>>>, <<<<7, 7>>, <<7, 7>>, <<7>>>> }
\* The arguments <<QInit, weights>> of CalcAssemblyQ: well-formed, or one of
\* them too short
AssemblyArgs == { <<<<1, 1>>, <<1, 1>>>>, <<<<0, 0>>, <<1, 1>>>>,
                  <<<<0>>, <<1, 1>>>>, <<<<1, 1>>, <<1>>>> }

\* The arguments <<Q, QDotInit, weights>> of CalcAssemblyQDot: well-formed, or
\* one of them too short
QDotArgs == { <<<<1, 1>>, <<1, 1>>, <<1, 1>>>>, <<<<1, 1>>, <<0, 1>>, <<1, 1>>>>,
              <<<<0>>, <<1, 1>>, <<1, 1>>>>, <<<<1, 1>>, <<0>>, <<1, 1>>>>,
              <<<<1, 1>>, <<1, 1>>, <<1>>>> }

\* The activation of CalcAssemblyQ: the arguments (guess is QInit as passed),
\* the locals, and the numbers of Jacobian evaluations and linear solves
Idle == [pc |-> "idle", guess |-> <<>>, weights |-> <<>>, QInit |-> <<>>,
         e |-> <<>>, d |-> <<>>, it |-> 0, max_iter |-> 0, tol |-> 0,
         jacs |-> 0, lins |-> 0]

\* The registry, which the assembly functions only read
registryVars == <<regVars, rowVars, sysVars, kokVars, nsVars, bound,
                  linear_solver, QDDot, QDotPlus, log>>

\* v.norm() < tolerance
NormSq(v) == SumSeq([i \in 1..Len(v) |-> v[i] * v[i]])
NormBelow(v, tol) == NormSq(v) < tol * tol

\* CalcConstraintsPositionError (model, q, cs, e) into a local e
PositionError(in, q) ==
  [r \in 1..size |->
     in.slope * SumSeq([k \in 1..DofCount |->
                          in.J[((r - 1) % Len(in.J)) + 1][k] * (q[k] - in.target[k])])]

\* CalcConstraintsJacobian into the local constraintJac
ConstraintJac(in) == ConstraintsJacobian(ZeroMat(size, DofCount), in.J)

Diag(w) == [rows |-> Len(w), cols |-> Len(w),
            e |-> [ij \in (1..Len(w)) \X (1..Len(w)) |->
                     IF ij[1] = ij[2] THEN w[ij[1]] ELSE 0]]

\* The local A: the weights on the diagonal, the Jacobian and its transpose
AssemblyA(w, Jm) ==
  BuildA(ZeroMat(Len(w) + Jm.rows, Len(w) + Jm.rows), Diag(w), Jm)

\* SolveLinearSystem (A, b, x, ls): the two ways it ends the process
SizesMismatch(Am, bv, xv) == Am.rows # Len(bv) \/ Am.cols # Len(xv)
SolveLinearSystemFatal(Am, bv, xv, ls) ==
  SizesMismatch(Am, bv, xv) \/ ls \notin ValidSolvers

\* SolveLinearSystem called by the user
SolveLinearSystem(Am, bv, ls) ==
  /\ CountedArgs("SolveLinearSystem", world, <<Am, bv, ls>>)
  /\ asm.pc = "idle"
  /\ aborted' = SolveLinearSystemFatal(Am, bv, xsol, ls)
  /\ xsol' = IF SolveLinearSystemFatal(Am, bv, xsol, ls) THEN xsol
             ELSE LinSolve(Am, bv)
  /\ UNCHANGED <<registryVars, Q, QDot, asm, ret>>

\* A check that forgets the output vector
InputSizesRefused(Qv, QInit, weights) ==
  Len(QInit) # QSize \/ Len(weights) # DofCount

\* The size checks of CalcAssemblyQ: cerr, assert(false), abort()
AssemblyQSizesRefused(Qv, QInit, weights) ==
  Len(Qv) # QSize \/ Len(QInit) # QSize \/ Len(weights) # DofCount

\* A test that never finds the guess good enough
NeverSatisfied(e, tolerance) == FALSE

\* if (e.norm() < tolerance) before the loop
AlreadySatisfied(e, tolerance) == NormBelow(e, tolerance)

\* CalcAssemblyQ (model, QInit, cs, Q, weights, tolerance, max_iter) up to
\* the loop; the value returned is held as 1 (true) or 0 (false)
CalcAssemblyQ(QInit, weights, tolerance, max_iter) ==
  /\ CountedArgs("CalcAssemblyQ", world, <<QInit, weights, tolerance, max_iter>>)
  /\ asm.pc = "idle"
  /\ UNCHANGED <<registryVars, QDot, xsol>>
  /\ IF AssemblyQSizesRefused(Q, QInit, weights)
     THEN aborted' = TRUE /\ UNCHANGED <<Q, asm, ret>>
     ELSE \E e \in { PositionError(world, QInit) } :
          \E act \in { [Idle EXCEPT !.guess = QInit, !.weights = weights,
                                      !.QInit = QInit, !.e = e,
                                      !.d = ZeroVec(DofCount),
                                      !.max_iter = max_iter, !.tol = tolerance] } :
            /\ aborted' = FALSE
            /\ IF AlreadySatisfied(e, tolerance)
               THEN Q' = QInit /\ ret' = 1 /\ asm' = act
               ELSE Q' = Q /\ ret' = ret /\ asm' = [act EXCEPT !.pc = "loop"]

\* A loop that forgets ++it
ItKept(it) == it

\* ++it
ItNext(it) == it + 1

\* A test of the error alone
ErrorConverged(e, d, tolerance) == NormBelow(e, tolerance)

\* if (e.norm() < tolerance && d.norm() < tolerance)
StepConverged(e, d, tolerance) == NormBelow(e, tolerance) /\ NormBelow(d, tolerance)

\* One iteration of the loop of CalcAssemblyQ
CalcAssemblyQIterate ==
  /\ ~aborted
  /\ asm.pc = "loop" /\ asm.it < asm.max_iter
  /\ UNCHANGED <<registryVars, QDot, xsol, world, solves, call>>
  /\ \E Am \in { AssemblyA(asm.weights, ConstraintJac(world)) } :
     \E bv \in { ZeroVec(DofCount) \o VecNeg(asm.e) } :
       IF SolveLinearSystemFatal(Am, bv, ZeroVec(size + DofCount), linear_solver)
       THEN /\ aborted' = TRUE
            /\ asm' = [asm EXCEPT !.jacs = @ + 1]
            /\ UNCHANGED <<Q, ret>>
       ELSE \E xv \in { LinSolve(Am, bv) } :
            \E d \in { SubSeq(xv, 1, DofCount) } :
            \E q \in { VecAdd(asm.QInit, d) } :
            \E e \in { PositionError(world, q) } :
              /\ aborted' = FALSE
              /\ IF StepConverged(e, d, asm.tol)
                 THEN /\ Q' = q /\ ret' = 1
                      /\ asm' = [asm EXCEPT !.pc = "idle", !.QInit = q, !.e = e,
                                             !.d = d, !.jacs = @ + 1,
                                             !.lins = @ + 1]
                 ELSE /\ Q' = Q /\ ret' = ret
                      /\ asm' = [asm EXCEPT !.QInit = q, !.e = e, !.d = d,
                                             !.it = ItNext(@), !.jacs = @ + 1,
                                             !.lins = @ + 1]

\* The loop of CalcAssemblyQ is left at it = max_iter: Q = QInit; return false
CalcAssemblyQExit ==
  /\ ~aborted
  /\ asm.pc = "loop" /\ ~ (asm.it < asm.max_iter)
  /\ Q' = asm.QInit
  /\ ret' = 0
  /\ asm' = [asm EXCEPT !.pc = "idle"]
  /\ UNCHANGED <<registryVars, QDot, xsol, world, solves, call, aborted>>

\* The size checks of CalcAssemblyQDot
AssemblyQDotSizesRefused(QDotv, Qv, QDotInit, weights) ==
  \/ Len(QDotv) # DofCount \/ Len(Qv) # QSize
  \/ Len(QDotInit) # Len(QDotv) \/ Len(weights) # Len(QDotv)

\* CalcAssemblyQDot (model, Q, QDotInit, cs, QDot, weights)
CalcAssemblyQDot(Qv, QDotInit, weights) ==
  /\ CountedArgs("CalcAssemblyQDot", world, <<Qv, QDotInit, weights>>)
  /\ asm.pc = "idle"
  /\ UNCHANGED <<registryVars, Q, xsol, asm, ret>>
  /\ IF AssemblyQDotSizesRefused(QDot, Qv, QDotInit, weights)
     THEN aborted' = TRUE /\ QDot' = QDot
     ELSE \E Am \in { AssemblyA(weights, ConstraintJac(world)) } :
          \E bv \in { [i \in 1..(size + DofCount) |->
                         IF i <= Len(weights) THEN weights[i] * QDotInit[i]
                         ELSE 0] } :
            /\ aborted' = SolveLinearSystemFatal(Am, bv, ZeroVec(size + DofCount),
                                                 linear_solver)
            /\ QDot' = IF aborted' THEN QDot
                       ELSE SubSeq(LinSolve(Am, bv), 1, DofCount)

\* CompositeRigidBodyAlgorithm (model, Q, CS.H, false) accepts only an H of
\* dof_count rows and columns
MassMatrixRefused == AssertFails(H.rows = DofCount /\ H.cols = DofCount)

\* ComputeConstraintImpulsesDirect (model, Q, QDotMinus, CS, QDotPlus)
ComputeConstraintImpulsesDirect(in) ==
  /\ Counted("ComputeConstraintImpulsesDirect", in)
  /\ UNCHANGED <<regVars, err, errd, force, v_plus, d_multdof3_u, C, gamma,
                 kokVars, nsVars, bound, linear_solver, QDDot, log, ret>>
  /\ IF MassMatrixRefused
     THEN aborted' = TRUE /\ UNCHANGED <<H, G, A, b, x, QDotPlus, impulse>>
     ELSE /\ H' = in.Hm
          /\ G' = ConstraintsJacobian(G, in.J)
          /\ \E c \in { MatVec(H', in.QDotMinus) } :
               SolveConstrainedSystemDirect(H', G', c, v_plus)
          /\ aborted' = SolverRefused
          /\ IF SolverRefused THEN UNCHANGED <<QDotPlus, impulse>>
             ELSE /\ QDotPlus' = [i \in 1..DofCount |-> x'[i]]
                  /\ impulse' = [i \in 1..Len(impulse) |->
                                   IF i <= size THEN x'[DofCount + i]
                                   ELSE impulse[i]]

\* ComputeConstraintImpulsesRangeSpaceSparse (model, Q, QDotMinus, CS, QDotPlus)
ComputeConstraintImpulsesRangeSpaceSparse(in) ==
  /\ Counted("ComputeConstraintImpulsesRangeSpaceSparse", in)
  /\ UNCHANGED <<regVars, err, errd, force, v_plus, d_multdof3_u, C, gamma, A, b,
                 x, QDDot_t, QDDot_0, f_t, point_accel_0, f_ext_constraints,
                 d_pA, d_a, d_u, nsVars, bound, linear_solver, QDDot, log, ret>>
  /\ aborted' = MassMatrixRefused
  /\ IF MassMatrixRefused
     THEN UNCHANGED <<H, G, K, a, QDotPlus, impulse>>
     ELSE /\ H' = FactorLTL(in.Hm, in.Hm.rows)
          /\ G' = ConstraintsJacobian(G, in.J)
          /\ \E c \in { MatVec(in.Hm, in.QDotMinus) } :
               SolveConstrainedSystemRangeSpaceSparse(H', G', c, v_plus, impulse',
                                                      QDotPlus')

\* ComputeConstraintImpulsesNullSpace (model, Q, QDotMinus, CS, QDotPlus)
ComputeConstraintImpulsesNullSpace(in) ==
  /\ Counted("ComputeConstraintImpulsesNullSpace", in)
  /\ UNCHANGED <<regVars, err, errd, force, v_plus, d_multdof3_u, C, gamma, A, b,
                 x, kokVars, bound, linear_solver, QDDot, log, ret>>
  /\ IF MassMatrixRefused
     THEN aborted' = TRUE /\ UNCHANGED <<H, G, nsVars, QDotPlus, impulse>>
     ELSE /\ H' = in.Hm
          /\ G' = ConstraintsJacobian(G, in.J)
          /\ NullSpaceBasis(G')
          /\ \E c \in { MatVec(H', in.QDotMinus) } :
               /\ SolveConstrainedSystemNullSpace(H', G', c, v_plus)
               /\ aborted' = SolverRefused
               /\ IF SolverRefused THEN UNCHANGED <<QDotPlus, impulse>>
                  ELSE /\ QDotPlus' = NullSpaceQDDot
                       /\ impulse' = IF LambdaWritten(in)
                                     THEN NullSpaceLambda(H', G', c, QDotPlus')
                                     ELSE impulse

\* The buffer sizes ForwardDynamicsContactsKokkevis asserts on entry
KokkevisSizesRefused ==
  AssertFails(/\ Len(f_ext_constraints) = NumBodies
              /\ Len(QDDot_0) = DofCount /\ Len(QDDot_t) = DofCount
              /\ Len(f_t) = size /\ Len(point_accel_0) = size
              /\ K.rows = size /\ K.cols = size
              /\ Len(force) = size /\ Len(a) = size)

\* A check that lets every constraint set through
MixedSetAccepted == FALSE

\* if (CS.constraints.size() != CS.contactConstraints.size()): cerr,
\* assert(false), abort()
MixedSetRefused == Len(constraints) # Len(contactConstraints)

\* The movable bodies that carry a contact constraint
ContactBodies ==
  { constraints[contactConstraints[k] + 1].bodyIds[1] :
      k \in 1..Len(contactConstraints) }

\* The rows of the contact constraints on the body
ContactRowsOn(body) ==
  UNION { RowsOf(constraints[contactConstraints[k] + 1]) :
            k \in { kk \in 1..Len(contactConstraints) :
                      constraints[contactConstraints[kk] + 1].bodyIds[1] = body } }

Inverse(M) ==
  FromColumns(M.rows, [j \in 1..M.cols |->
                         LinSolve(M, [i \in 1..M.rows |-> IF i = j THEN 1 ELSE 0])])

\* ForwardDynamicsAccelerationDeltas for a unit test force on the body: the
\* deltas are reset, then d_pA and d_u of the body are written
DeltasReset(v) == IF size = 0 THEN v ELSE VecSetZero(v)
DeltaOf(v, val) ==
  IF size = 0 THEN v
  ELSE [i \in 1..Len(v) |->
          IF i - 1 = constraints[LastCover(size - 1)].bodyIds[1] THEN val ELSE 0]

\* The rows ci + j of the normals of a contact constraint
NormalRows(c) == c.rowInSystem .. (c.rowInSystem + Len(c.dirs) - 1)

\* The test forces in the order of the loops over bi and j, each as
\* <<movable_body_id, ci + j>>; every body of the model is movable
TestForces ==
  Concat([bi \in 1..Len(contactConstraints) |->
            LET c == constraints[contactConstraints[bi] + 1]
            IN  [j \in 1..Len(c.dirs) |-> <<c.bodyIds[1], c.rowInSystem + j - 1>>]])

\* A test force that is left in place
KeptAt(v, body) == v

\* CS.f_ext_constraints[movable_body_id].setZero()
SetZeroAt(v, body) == [v EXCEPT ![body + 1] = 0]

\* The body of the loop over j up to setZero(), for the test forces tfs in
\* turn: the entry of the movable body is set to the test force ft[ci + j],
\* ForwardDynamicsAccelerationDeltas runs, the entry is zeroed.  The result
\* holds f_ext_constraints after the last test force and the steps taken.
RECURSIVE TestForceLoop(_, _, _)
TestForceLoop(fext, ft, tfs) ==
  IF tfs = <<>> THEN [f_ext_constraints |-> fext, log |-> <<>>]
  ELSE LET tf == Head(tfs)
           set == [fext EXCEPT ![tf[1] + 1] = ft[tf[2] + 1]]
           zero == SetZeroAt(set, tf[1])
           rest == TestForceLoop(zero, ft, Tail(tfs))
       IN  [rest EXCEPT !.log =
              << <<"f_ext_constraints", set>>,
                 <<"ForwardDynamicsAccelerationDeltas", tf>>,
                 <<"f_ext_constraints.setZero", zero>> >> \o @]

\* A loop over dj that starts at the constraint of the test force
ResponseRowsFrom(row) ==
  UNION { NormalRows(constraints[contactConstraints[dj] + 1]) :
            dj \in { d \in 1..Len(contactConstraints) :
                       \E r \in NormalRows(constraints[contactConstraints[d] + 1]) :
                         r >= row } }

\* The loops over dj and k: the rows cj + k whose point accelerations are
\* compared with the baseline after the test force of the row
ResponseRows(row) ==
  UNION { NormalRows(constraints[contactConstraints[dj] + 1]) :
            dj \in 1..Len(contactConstraints) }

\* CS.K(ci+j,cj+k) = normal[k].dot (point_accel_t - CS.point_accel_0[cj+k])
\* for every test force and every row of its response; M[cj+k][ci+j] is the
\* change of the acceleration of row cj+k under the test force of row ci+j
KWritten(Kold, M) ==
  [Kold EXCEPT !.e = [ij \in DOMAIN Kold.e |->
     IF /\ \E t \in 1..Len(TestForces) : TestForces[t][2] = ij[1] - 1
        /\ ij[2] - 1 \in ResponseRows(ij[1] - 1)
     THEN M.e[<<ij[2], ij[1]>>] ELSE Kold.e[ij]]]

\* The switch on CS.linear_solver; a build with RBDL_USE_SIMPLE_MATH calls
\* LinSolveGaussElimPivot instead and does not read the selector
KokkevisSolverRefused(in) == ~in.simple_math /\ SolverRefused

\* ForwardDynamicsContactsKokkevis (model, Q, QDot, Tau, CS, QDDot).  The
\* acceleration of the contact point of row r along its normal is
\* J[r] * qddot - gam[r]; a unit test force on row r changes the accelerations
\* by H^-1 J[r]^T.
ForwardDynamicsContactsKokkevis(in) ==
  /\ Counted("ForwardDynamicsContactsKokkevis", in)
  /\ UNCHANGED <<regVars, err, errd, impulse, v_plus, sysVars, nsVars, bound,
                 linear_solver, QDotPlus, ret>>
  /\ IF KokkevisSizesRefused \/ MixedSetRefused
     THEN aborted' = TRUE /\ UNCHANGED <<kokVars, d_multdof3_u, force, QDDot, log>>
     ELSE \E Hinv \in { Inverse(in.Hm) } :
          \E Gm \in { ConstraintsJacobian(ZeroMat(size, DofCount), in.J) } :
          \E tested \in { TestForceLoop(f_ext_constraints, RowsWritten(f_t, <<1>>),
                                        TestForces) } :
            \* ForwardDynamics (model, Q, QDot, Tau, CS.QDDot_0)
            /\ QDDot_0' = MatVec(Hinv, VecSub(in.tau, in.Cv))
            /\ point_accel_0' =
                 VecSub(MatVec(Gm, QDDot_0'), RowsWritten(ZeroVec(size), in.gam))
            /\ a' = VecNeg(point_accel_0')
            \* the test forces
            /\ f_t' = RowsWritten(f_t, <<1>>)
            /\ d_pA' = DeltaOf(d_pA, -1)
            /\ d_u' = DeltaOf(d_u, 1)
            /\ d_a' = DeltasReset(d_a)
            /\ d_multdof3_u' = DeltasReset(d_multdof3_u)
            /\ QDDot_t' = IF size = 0 THEN QDDot_t
                          ELSE VecAdd(QDDot_0', MatVec(Hinv, Column(MatT(Gm), size)))
            /\ K' = KWritten(K, MatMul(Gm, MatMul(Hinv, MatT(Gm))))
            /\ log' = tested.log
            \* the solve and the resulting accelerations
            /\ aborted' = KokkevisSolverRefused(in)
            /\ IF KokkevisSolverRefused(in)
               THEN /\ f_ext_constraints' = tested.f_ext_constraints
                    /\ UNCHANGED <<force, QDDot>>
               ELSE /\ force' = LinSolve(K', a')
                    \* f_ext_constraints[movable_body_id] -= f_t[ci+k] * force[ci+k]
                    /\ f_ext_constraints' =
                         [i \in 1..Len(f_ext_constraints) |->
                            tested.f_ext_constraints[i]
                            - SumSeq([r \in 1..size |->
                                        IF r - 1 \in ContactRowsOn(i - 1)
                                        THEN f_t'[r] * force'[r] ELSE 0])]
                    /\ QDDot' = MatVec(Hinv, VecAdd(VecSub(in.tau, in.Cv),
                                                     MatVec(MatT(Gm), force')))

------------------------------------------------------------------------------

\* The registry after construction, the caller's vectors sized for the model
Constructed ==
  /\ constraints = <<>> /\ contactConstraints = <<>> /\ loopConstraints = <<>>
  /\ name = <<>> /\ constraintType = <<>>
  /\ err = <<>> /\ errd = <<>> /\ force = <<>> /\ impulse = <<>> /\ v_plus = <<>>
  /\ d_multdof3_u = <<>>
  /\ bound = FALSE
  /\ linear_solver = LinearSolverColPivHouseholderQR
  /\ H = ZeroMat(0, 0) /\ C = <<>> /\ gamma = <<>> /\ G = ZeroMat(0, 0)
  /\ A = ZeroMat(0, 0) /\ b = <<>> /\ x = <<>>
  /\ K = ZeroMat(0, 0) /\ a = <<>> /\ QDDot_t = <<>> /\ QDDot_0 = <<>>
  /\ f_t = <<>> /\ point_accel_0 = <<>> /\ f_ext_constraints = <<>>
  /\ d_pA = <<>> /\ d_a = <<>> /\ d_u = <<>>
  /\ GT_qr_Q = ZeroMat(0, 0) /\ Y = ZeroMat(0, 0) /\ Z = ZeroMat(0, 0)
  /\ qddot_y = <<>> /\ qddot_z = <<>>
  /\ QDDot = ZeroVec(DofCount)
  /\ QDotPlus = ZeroVec(DofCount)
  /\ log = <<>>
  /\ solves = 0
  /\ aborted = FALSE
  /\ call = NoCall
  /\ ret = 0
  /\ asm = Idle

\* The caller's vectors of the assembly functions, sized for the model
CallerSized ==
  Q = <<7, 7>> /\ QDot = <<7, 7>> /\ xsol = <<7, 7>>

Init == Constructed /\ CallerSized /\ world = NoCall.in

Next ==
  \/ \E site \in ContactSites, k \in 2..MaxNormals :
       AddContactConstraintNormals(site[1], site[2], Directions(size, k))
  \/ \E site \in ContactSites, allow \in BOOLEAN :
       AddContactConstraint(site[1], site[2], size, allow)
  \/ \E site \in LoopSites, allow \in BOOLEAN :
       AddLoopConstraint(site[1], site[2], site[3], site[4], size, site[5], allow)
  \/ \E site \in LoopSites, k \in 2..MaxNormals :
       AddLoopConstraintAxes(site[1], site[2], site[3], site[4],
                             Directions(size, k), site[5])
  \/ \E csize \in CustomSizes : AddCustomConstraint(csize)
  \/ Bind(NumBodies, DofCount)
  \/ clear
  \/ ForwardDynamicsConstraintsDirect

Spec == Init /\ [][Next]_vars

\* The life of a registry as the set-up code and the simulation step use it:
\* single-row registrations while the registry is unbound and has fewer rows
\* than the model has degrees of freedom, Bind, the choice of the solver, and
\* the assembly and solve operations on the inputs DynInputs.
SolveNext ==
  \/ \E allow \in BOOLEAN :
       ~bound /\ size < DofCount /\ AddContactConstraint(1, 0, size, allow)
  \/ \E site \in LoopSites, allow \in BOOLEAN :
       /\ ~bound /\ size < DofCount /\ site[1] = 1
       /\ AddLoopConstraint(site[1], site[2], site[3], site[4], size, site[5], allow)
  \/ ~bound /\ size < DofCount /\ AddCustomConstraint(1)
  \/ Bind(NumBodies, DofCount)
  \/ \E ls \in ValidSolvers \cup {LinearSolverUnknown} : SetSolver(ls)
  \/ CalcConstrainedSystemVariables(world)
  \/ ForwardDynamicsConstraintsDirectIn(world)
  \/ ForwardDynamicsConstraintsRangeSpaceSparse(world)
  \/ ForwardDynamicsConstraintsNullSpace(world)
  \/ ComputeConstraintImpulsesDirect(world)
  \/ ComputeConstraintImpulsesRangeSpaceSparse(world)
  \/ ComputeConstraintImpulsesNullSpace(world)
  \/ ForwardDynamicsContactsKokkevis(world)

\* The model's state is any of DynInputs
SolveInit == Constructed /\ CallerSized /\ world \in DynInputs

SolveSpec == SolveInit /\ [][SolveNext]_vars

\* The assembly of a configuration: single-row registrations, the choice of
\* the solver, and the assembly functions; while CalcAssemblyQ is in its loop
\* the caller does nothing else.
AssemblyNext ==
  \/ \E allow \in BOOLEAN :
       /\ asm.pc = "idle" /\ ~bound /\ size < DofCount
       /\ AddContactConstraint(1, 0, size, allow)
  \/ asm.pc = "idle" /\ ~bound /\ size < DofCount /\ AddCustomConstraint(1)
  \/ \E ls \in { LinearSolverPartialPivLU, LinearSolverUnknown } :
       asm.pc = "idle" /\ SetSolver(ls)
  \/ \E args \in AssemblyArgs, max_iter \in 0..MaxIter :
       CalcAssemblyQ(args[1], args[2], 1, max_iter)
  \/ CalcAssemblyQIterate
  \/ CalcAssemblyQExit
  \/ \E args \in QDotArgs : CalcAssemblyQDot(args[1], args[2], args[3])
  \/ \E Am \in MassMatrices, bv \in { <<1, 1>>, <<0>> },
        ls \in { LinearSolverHouseholderQR, LinearSolverUnknown } :
       SolveLinearSystem(Am, bv, ls)

AssemblyInit ==
  /\ Constructed
  /\ world \in AsmInputs
  /\ \E cv \in CallerVectors : Q = cv[1] /\ QDot = cv[2] /\ xsol = cv[3]

AssemblySpec == AssemblyInit /\ [][AssemblyNext]_vars

\* The loop of CalcAssemblyQ is a sequential program: it takes its next step
FairAssemblySpec ==
  AssemblySpec /\ WF_vars(CalcAssemblyQIterate) /\ WF_vars(CalcAssemblyQExit)

\* The inputs of repeated calls: the caller makes MaxRepeats calls at most
RepeatInputs == { [w EXCEPT !.calls = MaxRepeats] : w \in DynInputs }

\* The caller changes Q, QDot and Tau between two calls: the collaborators
\* compute other values
Move ==
  /\ ~aborted
  /\ solves > 0
  /\ world' \in { w \in RepeatInputs : w.simple_math = world.simple_math } \ { world }
  /\ UNCHANGED <<regVars, rowVars, sysVars, kokVars, nsVars, bound, linear_solver,
                 QDDot, QDotPlus, log, solves, callerVars, aborted, call, ret>>

\* Repeated solves on one registry of contact constraints: single-row
\* registrations, Bind, clear, and the direct and the Kokkevis operations on
\* inputs that change between the calls.
RepeatNext ==
  \/ \E bp \in { <<1, 0>>, <<2, 0>> } :
       ~bound /\ size < DofCount /\ AddContactConstraint(bp[1], bp[2], size, TRUE)
  \/ Bind(NumBodies, DofCount)
  \/ bound /\ call.op # "clear" /\ clear
  \/ Move
  \/ ForwardDynamicsConstraintsDirectIn(world)
  \/ ComputeConstraintImpulsesDirect(world)
  \/ ForwardDynamicsContactsKokkevis(world)

RepeatInit == Constructed /\ CallerSized /\ world \in RepeatInputs

RepeatSpec == RepeatInit /\ [][RepeatNext]_vars

------------------------------------------------------------------------------
(* The two recursions over the tree of bodies.  A model enters as what its  *)
(* previous ForwardDynamics call has cached: the parent lambda[i] of every  *)
(* body i >= 1 (a parent has a smaller index than its children), its joint  *)
(* of one degree of freedom with q_index = i - 1, and along one direction   *)
(* of space the joint axis S[i] (1 when the joint moves along the           *)
(* direction, 0 when it is orthogonal to it), d[i] and U[i] = d[i] * S[i].  *)
(* The bodies have unit mass, the transforms between the bodies are         *)
(* translations and the velocity products c[i] and v x I v vanish.  IA, pA, *)
(* u and a are the working fields of the model; entry i + 1 of a sequence   *)
(* belongs to body i.                                                       *)

MaxTreeBodies == 4  \* bodies of the largest model, the root included

TreeInputs ==
  UNION { { [lambda |-> l, S |-> s, d |-> [i \in 1..(n - 1) |-> 1 + (i % 2)],
             tau |-> [i \in 1..(n - 1) |-> 2 * i], gravity |-> 2,
             IA |-> ZeroVec(n), pA |-> ZeroVec(n), u |-> ZeroVec(n),
             a |-> ZeroVec(n), calls |-> MaxRepeats] :
              l \in { ll \in [1..(n - 1) -> 0..(n - 2)] :
                        \A i \in 1..(n - 1) : ll[i] < i },
              s \in [1..(n - 1) -> {0, 1}] } :
          n \in 2..MaxTreeBodies }

\* A pass in ascending order
AscendingOrder(n) == [k \in 1..(n - 1) |-> k]

\* for (i = n - 1; i > 0; i--)
BackwardOrder(n) == [k \in 1..(n - 1) |-> n - k]

\* Deltas that are not reset
DeltasKept(v) == v

\* The reset loop of ForwardDynamicsAccelerationDeltas: setZero() on the
\* entry of every body
DeltasZeroed(v) == [i \in 1..Len(v) |-> 0]

\* The loop for (i = body_id; i > 0; i--) of ForwardDynamicsAccelerationDeltas
\* over the bodies in order, on st = [d_pA, d_u]: the test force ft[body_id]
\* seeds d_pA[body_id]; d_u[i] = - S[i] . d_pA[i]; d_pA[i] + U[i] * d_u[i] /
\* d[i] is added to d_pA[lambda[i]] unless lambda[i] is the root
RECURSIVE DeltaBackward(_, _, _, _, _)
DeltaBackward(in, st, ft, body_id, order) ==
  IF order = <<>> THEN st
  ELSE LET i == Head(order)
           lam == in.lambda[i]
           seeded == IF i = body_id THEN [st.d_pA EXCEPT ![i + 1] = - ft[i + 1]]
                     ELSE st.d_pA
           du == - in.S[i] * seeded[i + 1]
           folded == IF lam # 0
                     THEN [seeded EXCEPT ![lam + 1] =
                             @ + seeded[i + 1]
                               + (in.d[i] * in.S[i] * du) \div in.d[i]]
                     ELSE seeded
       IN  DeltaBackward(in, [d_pA |-> folded,
                              d_u |-> [st.d_u EXCEPT ![i + 1] = du]],
                         ft, body_id, Tail(order))

\* ForwardDynamicsAccelerationDeltas (model, CS, QDDot_t, body_id, f_t) with
\* QDDot_t = CS.QDDot_t
ForwardDynamicsAccelerationDeltas(in, body_id, ft) ==
  LET n == Len(in.lambda) + 1
  IN
  /\ ~aborted
  /\ solves < in.calls
  /\ solves' = solves + 1
  /\ call' = [TheCall("ForwardDynamicsAccelerationDeltas") EXCEPT
                !.in = in, !.args = <<body_id, ft>>]
  /\ UNCHANGED <<regVars, err, errd, force, impulse, v_plus, sysVars, K, a,
                 QDDot_0, f_t, point_accel_0, f_ext_constraints, nsVars, bound,
                 linear_solver, QDDot, QDotPlus, log, world, callerVars, ret>>
  /\ IF AssertFails(Len(d_pA) = n /\ Len(d_a) = n /\ Len(d_u) = n)
     THEN aborted' = TRUE /\ UNCHANGED <<d_pA, d_a, d_u, d_multdof3_u, QDDot_t>>
     ELSE \E back \in { DeltaBackward(in, [d_pA |-> DeltasZeroed(d_pA),
                                           d_u |-> DeltasZeroed(d_u)],
                                      ft, body_id, BackwardOrder(body_id + 1)) } :
          \* QDDot_t[0] = 0.; CS.d_a[0] = model.a[0]; the loop over the bodies
          \* in ascending order, every body after its parent
          LET da[i \in 0..(n - 1)] ==
                IF i = 0 THEN in.a[1]
                ELSE LET Xa == da[in.lambda[i]]
                     IN  Xa + in.S[i] * ((back.d_u[i + 1] - in.d[i] * in.S[i] * Xa)
                                          \div in.d[i])
          IN  /\ aborted' = FALSE
              /\ d_pA' = back.d_pA
              /\ d_u' = back.d_u
              /\ d_multdof3_u' = DeltasZeroed(d_multdof3_u)
              /\ d_a' = [i \in 1..n |-> da[i - 1]]
              /\ QDDot_t' = [q \in 1..Len(QDDot_t) |->
                               (back.d_u[q + 1] - in.d[q] * in.S[q] * da[in.lambda[q]])
                                 \div in.d[q]]

\* The loop for (i = mBodies.size() - 1; i > 0; i--) of
\* ForwardDynamicsApplyConstraintForces over the bodies in order, on
\* st = [IA, pA, u, log]: u[i] = tau[i] - S[i] . pA[i]; unless lambda[i] is
\* the root, Ia = IA[i] - U[i] U[i]^T / d[i] and pa = pA[i] + Ia c[i]
\* + U[i] u[i] / d[i] are added to IA and pA of lambda[i]
RECURSIVE ApplyBackward(_, _, _)
ApplyBackward(in, st, order) ==
  IF order = <<>> THEN st
  ELSE LET i == Head(order)
           lam == in.lambda[i]
           ui == in.tau[i] - in.S[i] * st.pA[i + 1]
           Ia == st.IA[i + 1]
                 - (in.d[i] * in.S[i] * in.d[i] * in.S[i]) \div in.d[i]
           pa == st.pA[i + 1] + (in.d[i] * in.S[i] * ui) \div in.d[i]
       IN  ApplyBackward(in,
             [IA |-> IF lam # 0 THEN [st.IA EXCEPT ![lam + 1] = @ + Ia] ELSE st.IA,
              pA |-> IF lam # 0 THEN [st.pA EXCEPT ![lam + 1] = @ + pa] ELSE st.pA,
              u |-> [st.u EXCEPT ![i + 1] = ui],
              log |-> st.log \o << <<"u", i>> >>
                      \o (IF lam # 0 THEN << <<"fold", i>> >> ELSE <<>>)],
             Tail(order))

\* ForwardDynamicsApplyConstraintForces (model, Tau, CS, QDDot).  The
\* function reads CS.f_ext_constraints[i] of every body without a check of
\* its size: on a registry that Bind has not sized for the model it reads
\* outside the vector and dies or goes on with any value g.
ForwardDynamicsApplyConstraintForces(in, qddot) ==
  LET n == Len(in.lambda) + 1
  IN
  /\ ~aborted
  /\ solves < in.calls
  /\ solves' = solves + 1
  /\ call' = [TheCall("ForwardDynamicsApplyConstraintForces") EXCEPT
                !.in = in, !.args = <<qddot>>]
  /\ UNCHANGED <<regVars, rowVars, sysVars, kokVars, nsVars, bound,
                 linear_solver, QDotPlus, callerVars, ret>>
  /\ IF AssertFails(Len(qddot) = n - 1)
     THEN aborted' = TRUE /\ UNCHANGED <<world, QDDot, log>>
     ELSE \E crash \in BOOLEAN, g \in {0, 2} :
          \E fext \in { IF Len(f_ext_constraints) = n THEN f_ext_constraints
                        ELSE [i \in 1..n |-> g] } :
          \E back \in { ApplyBackward(in,
                          [IA |-> [i \in 1..n |-> IF i = 1 THEN in.IA[1] ELSE 1],
                           pA |-> [i \in 1..n |->
                                     IF i = 1 THEN in.pA[1]
                                     ELSE IF fext[i] # 0 THEN 0 - fext[i] ELSE 0],
                           u |-> in.u,
                           log |-> [i \in 1..(n - 1) |-> <<"IA, pA", i>>]],
                          BackwardOrder(n)) } :
          \* model.a[0] = - gravity; the loop over the bodies in ascending
          \* order, every body after its parent
          LET acc[i \in 0..(n - 1)] ==
                IF i = 0 THEN - in.gravity
                ELSE LET ai == acc[in.lambda[i]]
                     IN  ai + in.S[i] * ((back.u[i + 1] - in.d[i] * in.S[i] * ai)
                                          \div in.d[i])
          IN  /\ crash => Len(f_ext_constraints) # n
              /\ aborted' = crash
              /\ IF crash THEN UNCHANGED <<world, QDDot, log>>
                 ELSE /\ QDDot' = [q \in 1..(n - 1) |->
                                     (back.u[q + 1]
                                      - in.d[q] * in.S[q] * acc[in.lambda[q]])
                                       \div in.d[q]]
                      /\ world' = [in EXCEPT !.IA = back.IA, !.pA = back.pA,
                                             !.u = back.u,
                                             !.a = [i \in 1..n |-> acc[i - 1]]]
                      /\ log' = back.log \o [i \in 1..(n - 1) |-> <<"a", i>>]

\* The recursions as a caller uses them on the model world: Bind for that
\* model, an external force stored for a body (as
\* ForwardDynamicsContactsKokkevis stores its test forces and constraint
\* forces), and the two recursions.
TreeNext ==
  \/ ~bound /\ Bind(Len(world.lambda) + 1, Len(world.lambda))
  \/ \E body \in 1..Len(world.lambda) :
       /\ ~aborted /\ bound /\ f_ext_constraints[body + 1] = 0
       /\ f_ext_constraints' = [f_ext_constraints EXCEPT ![body + 1] = 2 * body]
       /\ UNCHANGED <<regVars, rowVars, sysVars, K, a, QDDot_t, QDDot_0, f_t,
                      point_accel_0, d_pA, d_a, d_u, nsVars, bound,
                      linear_solver, QDDot, QDotPlus, log, envVars, aborted,
                      call, ret>>
  \/ \E body_id \in 1..Len(world.lambda) :
       ForwardDynamicsAccelerationDeltas(
         world, body_id, [i \in 1..(Len(world.lambda) + 1) |-> 2 * i])
  \/ \E qd \in { QDDot, ZeroVec(Len(world.lambda)) } :
       ForwardDynamicsApplyConstraintForces(world, qd)

TreeInit == Constructed /\ CallerSized /\ world \in TreeInputs

TreeSpec == TreeInit /\ [][TreeNext]_vars

------------------------------------------------------------------------------
(* Properties of the registration calls.                                    *)

RegistrationOps == {"AddContactConstraintNormals", "AddContactConstraint",
                    "AddLoopConstraint", "AddLoopConstraintAxes",
                    "AddCustomConstraint"}

\* The sum of the row counts of all registered constraint objects
RowCountSum ==
  SumSeq([i \in 1..Len(constraints) |-> constraints[i].sizeOfConstraint])

\* C1: after any sequence of registration calls on an unbound registry, the
\* sum of the row counts of the registered constraint objects equals the
\* length of each of err, errd, force, impulse, name and constraintType.
C1_RowAccounting ==
  (~bound /\ ~aborted) =>
    /\ Len(err) = RowCountSum
    /\ Len(errd) = RowCountSum
    /\ Len(force) = RowCountSum
    /\ Len(impulse) = RowCountSum
    /\ Len(name) = RowCountSum
    /\ Len(constraintType) = RowCountSum

\* The row ranges [first row, first row + row count) of the registered
\* constraint objects are pairwise disjoint and cover the rows 0 .. size() - 1
RowRangesPartition ==
  /\ \A i, j \in 1..Len(constraints) :
       i # j => RowsOf(constraints[i]) \cap RowsOf(constraints[j]) = {}
  /\ CoveredRows = 0 .. (size - 1)

\* C2: after every registration call the row ranges of the registered
\* constraint objects are pairwise disjoint, each contiguous, and together
\* cover exactly the rows 0 .. size() - 1; the first row of a constraint
\* never changes after it is assigned.
C2_RowRanges ==
  [][/\ (call'.op \in RegistrationOps /\ ~aborted') => RowRangesPartition'
     /\ \A i \in 1..Len(constraints) :
          /\ i <= Len(constraints')
          /\ constraints'[i].rowInSystem = constraints[i].rowInSystem]_vars

\* C3: every registration operation called on a bound registry terminates the
\* process and registers nothing: no constraint object is appended and no
\* per-row array grows.
C3_RegistrationRequiresUnbound ==
  [][(bound /\ call'.op \in RegistrationOps) =>
       /\ aborted'
       /\ regVars' = regVars
       /\ rowVars' = rowVars]_vars

C5_BufferSizes ==
  (bound /\ ~aborted) =>
    /\ Len(gamma) = size /\ Len(a) = size
    /\ Len(f_t) = size /\ Len(point_accel_0) = size
    /\ G.rows = size /\ G.cols = DofCount
    /\ K.rows = size /\ K.cols = size
    /\ A.rows = DofCount + size /\ A.cols = DofCount + size
    /\ Len(b) = DofCount + size /\ Len(x) = DofCount + size
    /\ Len(err) = size /\ Len(errd) = size
    /\ Len(force) = size /\ Len(impulse) = size

\* C6: a single-normal AddContactConstraint call appends its normal to an
\* existing constraint object only if merging is permitted and the last entry
\* of the whole constraint sequence is a contact constraint on the same body
\* whose point differs from the new point by less than epsilon*100.
C6_ContactMergeRule ==
  [][(/\ call'.op = "AddContactConstraint"
      /\ ~aborted'
      /\ size' = size + 1
      /\ Len(constraints') = Len(constraints)) =>
       /\ call'.allow
       /\ Len(constraints) > 0
       /\ LET last == constraints[Len(constraints)]
          IN  /\ last.type = "contact"
              /\ last.bodyIds[1] = call'.body
              /\ Abs(call'.point - last.bodyFrames[1].r) < EpsTol]_vars

\* C7: of two consecutive single-normal AddContactConstraint calls with the
\* same body and point, the first creating a constraint object: with merging
\* enabled they leave one object holding the two normals in call order on two
\* consecutive rows, with merging disabled two objects of one row each, and
\* each call returns the index of its own row.
C7_MergeCorrectness ==
  [][(/\ call.op = "AddContactConstraint" /\ ~aborted
      /\ Len(constraints) > 0
      /\ constraints[Len(constraints)].type = "contact"
      /\ constraints[Len(constraints)].dirs = call.dirs
      /\ call'.op = "AddContactConstraint" /\ ~aborted'
      /\ call'.body = call.body /\ call'.point = call.point) =>
       LET k == Len(constraints)
           first == constraints[k].rowInSystem
       IN  /\ ret = first
           /\ ret' = first + 1
           /\ IF call'.allow
              THEN /\ Len(constraints') = k
                   /\ constraints'[k].dirs = call.dirs \o call'.dirs
                   /\ constraints'[k].rowInSystem = first
                   /\ constraints'[k].sizeOfConstraint = 2
              ELSE /\ Len(constraints') = k + 1
                   /\ constraints'[k] = constraints[k]
                   /\ constraints'[k].sizeOfConstraint = 1
                   /\ constraints'[k + 1].dirs = call'.dirs
                   /\ constraints'[k + 1].rowInSystem = first + 1
                   /\ constraints'[k + 1].sizeOfConstraint = 1]_vars

\* Whether the last registered loop constraint has the body pair and, within
\* epsilon*100 on every component, the frames of the call c
LoopCallMatchesLast(c) ==
  /\ Len(loopConstraints) > 0
  /\ LET l == constraints[loopConstraints[Len(loopConstraints)] + 1]
     IN  /\ l.bodyIds = c.pair
         /\ \A f \in 1..2 :
              /\ Abs(c.frames[f].r - l.bodyFrames[f].r) <= EpsTol
              /\ Abs(c.frames[f].E - l.bodyFrames[f].E) <= EpsTol

\* C8: a single-axis AddLoopConstraint call with merging permitted appends its
\* axis to the last registered loop constraint exactly when that constraint
\* has the same body pair and frames within epsilon*100; otherwise it creates
\* a loop constraint object whose first row is the current total row count.
\* In both cases exactly one row is added to every per-row array.
C8_LoopMergeRule ==
  [][(call'.op = "AddLoopConstraint" /\ ~aborted') =>
       /\ IF call'.allow /\ LoopCallMatchesLast(call')
          THEN LET k == loopConstraints[Len(loopConstraints)] + 1
               IN  /\ Len(constraints') = Len(constraints)
                   /\ constraints'[k].dirs = constraints[k].dirs \o call'.dirs
                   /\ constraints'[k].rowInSystem = constraints[k].rowInSystem
          ELSE /\ Len(constraints') = Len(constraints) + 1
               /\ constraints'[Len(constraints')].type = "loop"
               /\ constraints'[Len(constraints')].dirs = call'.dirs
               /\ constraints'[Len(constraints')].rowInSystem = size
       /\ Len(err') = Len(err) + 1 /\ Len(errd') = Len(errd) + 1
       /\ Len(force') = Len(force) + 1 /\ Len(impulse') = Len(impulse) + 1
       /\ Len(v_plus') = Len(v_plus) + 1
       /\ Len(name') = Len(name) + 1
       /\ Len(constraintType') = Len(constraintType) + 1]_vars

------------------------------------------------------------------------------
(* Properties of clear.                                                     *)

\* The dimensions of every per-row array and buffer
Dimensions ==
  <<Len(err), Len(errd), Len(force), Len(impulse), Len(v_plus),
    Len(d_multdof3_u), H.rows, H.cols, Len(C), Len(gamma), G.rows, G.cols,
    A.rows, A.cols, Len(b), Len(x), K.rows, K.cols, Len(a), Len(QDDot_t),
    Len(QDDot_0), Len(f_t), Len(point_accel_0), Len(f_ext_constraints),
    Len(d_pA), Len(d_a), Len(d_u), GT_qr_Q.rows, GT_qr_Q.cols, Y.rows, Y.cols,
    Z.rows, Z.cols, Len(qddot_y), Len(qddot_z)>>

\* C9: clear leaves the registration state unchanged: the constraint
\* sequence with every row range, the contact and loop side collections, name
\* and constraintType, the dimensions of every per-row array and buffer, the
\* linear solver and the bound flag are after clear what they were before.
C9_ClearKeepsRegistration ==
  [][call'.op = "clear" =>
       /\ regVars' = regVars
       /\ Dimensions' = Dimensions
       /\ linear_solver' = linear_solver
       /\ bound' = bound
       /\ ~aborted']_vars

\* clear has run on a bound registry that holds a constraint, after a solve
\* that left a non-zero multiplier-side error behind.
C9_Witness ==
  /\ call.op = "clear" /\ bound /\ ~aborted
  /\ Len(constraints) > 0 /\ Len(gamma) > 0
  /\ ~IsZeroVec(err)

\* C10: after clear every entry of err, errd, force and impulse is zero, and
\* H, C, G, gamma, A, b, x, K, a, f_t, point_accel_0, QDDot_0, QDDot_t and
\* f_ext_constraints are zero.
C10_ClearZeroes ==
  call.op = "clear" =>
    /\ IsZeroVec(err) /\ IsZeroVec(errd)
    /\ IsZeroVec(force) /\ IsZeroVec(impulse)
    /\ IsZeroMat(H) /\ IsZeroVec(C) /\ IsZeroMat(G) /\ IsZeroVec(gamma)
    /\ IsZeroMat(A) /\ IsZeroVec(b) /\ IsZeroVec(x)
    /\ IsZeroMat(K) /\ IsZeroVec(a) /\ IsZeroVec(f_t)
    /\ IsZeroVec(point_accel_0) /\ IsZeroVec(QDDot_0) /\ IsZeroVec(QDDot_t)
    /\ IsZeroVec(f_ext_constraints)

\* Everything the program holds: the registry, the caller's output, whether
\* the process lives and the value last returned
progVars == <<regVars, rowVars, sysVars, kokVars, nsVars, bound, linear_solver,
              QDDot, QDotPlus, aborted, ret>>

\* C11: clear is idempotent: a clear that directly follows a clear leaves
\* every field of the registry as the first clear left it.
C11_ClearIdempotent ==
  [][(call.op = "clear" /\ call'.op = "clear") => progVars' = progVars]_vars

\* A second clear has run directly after a first one, on a bound registry
\* whose buffers have rows and whose err a solve had filled.
C11_Witness ==
  /\ call.op = "clear" /\ call.again /\ bound /\ ~aborted
  /\ Len(constraints) > 0 /\ Len(gamma) > 0 /\ G.rows > 0
  /\ ~IsZeroVec(err)

------------------------------------------------------------------------------
(* Properties of the assembly and of the solve operations.                  *)

AssemblyOps == { "CalcConstrainedSystemVariables" }
ForwardDynamicsOps == { "ForwardDynamicsConstraintsDirect",
                        "ForwardDynamicsConstraintsRangeSpaceSparse",
                        "ForwardDynamicsConstraintsNullSpace" }
ImpulseOps == { "ComputeConstraintImpulsesDirect",
                "ComputeConstraintImpulsesRangeSpaceSparse",
                "ComputeConstraintImpulsesNullSpace" }
KokkevisOps == { "ForwardDynamicsContactsKokkevis" }
SolveOps == AssemblyOps \cup ForwardDynamicsOps \cup ImpulseOps \cup KokkevisOps

\* The step is a call of one of the operations ops
Calls(ops) == solves' = solves + 1 /\ call'.op \in ops

UnboundCall(ops) ==
  call.op \in ops /\ ~bound /\ aborted /\ Len(constraints) > 0 /\ solves = 1
C12_WitnessAssembly == UnboundCall(AssemblyOps)
C12_WitnessForwardDynamics == UnboundCall(ForwardDynamicsOps)
C12_WitnessImpulses == UnboundCall(ImpulseOps)

\* The operations that end in a linear solve chosen by linear_solver
ProjectionOps == { "CalcAssemblyQ", "CalcAssemblyQDot" }
SolvePathOps == ForwardDynamicsOps \cup ImpulseOps \cup KokkevisOps

\* A call of one of ops with a selector outside the enumeration terminates
\* the process and returns nothing to the caller or to the registry
UnknownSolverFatalFor(ops) ==
  (Calls(ops) /\ linear_solver \notin ValidSolvers) =>
    /\ aborted'
    /\ <<QDDot, QDotPlus, force, impulse>>' = <<QDDot, QDotPlus, force, impulse>>

\* C13: an unrecognized solver selector is fatal for every solve path: with
\* linear_solver outside {PartialPivLU, ColPivHouseholderQR, HouseholderQR}
\* every call of a Direct, RangeSpaceSparse or NullSpace strategy and of the
\* Kokkevis solve terminates the process instead of returning accelerations,
\* forces or impulses.
C13_UnknownSolverFatal == [][UnknownSolverFatalFor(SolvePathOps)]_vars

\* The same for the strategies other than RangeSpaceSparse, and for Kokkevis
\* in a build without RBDL_USE_SIMPLE_MATH
C13_SwitchedPathsFatal ==
  [][/\ UnknownSolverFatalFor((ForwardDynamicsOps \cup ImpulseOps)
           \ { "ForwardDynamicsConstraintsRangeSpaceSparse",
               "ComputeConstraintImpulsesRangeSpaceSparse" })
     /\ (~world.simple_math) => UnknownSolverFatalFor(KokkevisOps)]_vars

\* What ForwardDynamics writes to CS.QDDot_0 on the inputs of the call
Baseline(in) == MatVec(Inverse(in.Hm), VecSub(in.tau, in.Cv))

\* C14: ForwardDynamicsContactsKokkevis applies only to a pure contact set.
\* With a loop or custom constraint registered the call terminates the
\* process before the baseline forward dynamics has written QDDot_0 and with
\* QDDot, force, K, a and f_ext_constraints unmodified; on a bound registry
\* of contact constraints only the check passes: the baseline is computed and
\* the call dies only of an unrecognized solver.
C14_KokkevisPureContact ==
  [][Calls(KokkevisOps) =>
       IF Len(constraints) # Len(contactConstraints)
       THEN /\ aborted'
            /\ QDDot_0' = QDDot_0
            /\ <<QDDot, force, K, a, f_ext_constraints>>'
                 = <<QDDot, force, K, a, f_ext_constraints>>
       ELSE bound => /\ QDDot_0' = Baseline(call'.in)
                     /\ aborted' <=> (/\ linear_solver \notin ValidSolvers
                                      /\ ~world.simple_math)]_vars

\* Kokkevis was called on a bound registry holding a contact constraint and
\* a constraint of another type
C14_Witness ==
  /\ call.op \in KokkevisOps /\ bound /\ aborted
  /\ Len(contactConstraints) > 0
  /\ Len(constraints) > Len(contactConstraints)
  /\ linear_solver \in ValidSolvers

\* Kokkevis has returned forces for two contact rows
C14_WitnessPureContact ==
  /\ call.op \in KokkevisOps /\ bound /\ ~aborted
  /\ Len(contactConstraints) = Len(constraints) /\ size = 2
  /\ ~IsZeroVec(force) /\ ~IsZeroVec(QDDot_0)

\* The solution <<qddot, lambda>> of H qddot - G^T lambda = c, G qddot = gam
KKTSolution(Hm, Gm, c, gam) ==
  { <<SubSeq(xs, 1, Hm.rows), VecNeg(SubSeq(xs, Hm.rows + 1, Hm.rows + Gm.rows))>> :
      xs \in { LinSolve(BuildA(ZeroMat(Hm.rows + Gm.rows, Hm.rows + Gm.rows),
                                Hm, Gm), c \o gam) } }

\* qddot and lambda satisfy the two equations of the constrained system
SatisfiesKKT(Hm, Gm, c, gam, qddot, lambda) ==
  /\ VecSub(MatVec(Hm, qddot), MatVec(MatT(Gm), lambda)) = c
  /\ MatVec(Gm, qddot) = gam

\* The forward dynamics call of the step has returned the solution of the
\* system it has assembled, in QDDot when fs is FALSE and in QDDot and
\* CS.force when fs is TRUE
ReturnsSolution(ops, fs) ==
  (Calls(ops) /\ ~aborted') =>
    \E c \in { VecSub(call'.in.tau, C') } :
    \E sol \in KKTSolution(call'.in.Hm, G', c, gamma') :
      /\ QDDot' = sol[1]
      /\ fs => /\ force' = sol[2]
               /\ SatisfiesKKT(call'.in.Hm, G', c, gamma', QDDot', force')

\* C18: for the same well-posed input the three ForwardDynamicsConstraints
\* strategies write the same QDDot and store the same constraint force, sign
\* included: each returns the one solution of H qddot - G^T lambda = c,
\* G qddot = gamma of the system assembled from the input.
C18_ForwardDynamicsAgree == [][ReturnsSolution(ForwardDynamicsOps, TRUE)]_vars

\* The accelerations of the three strategies agree
C18_AccelerationsAgree == [][ReturnsSolution(ForwardDynamicsOps, FALSE)]_vars

\* Direct and RangeSpaceSparse agree on accelerations and forces
C18_DirectRangeSpaceAgree ==
  [][ReturnsSolution(ForwardDynamicsOps \ { "ForwardDynamicsConstraintsNullSpace" },
                     TRUE)]_vars

\* The impulse call of the step has returned the solution of the velocity
\* jump system H qdot+ - G^T Lambda = H qdot-, G qdot+ = v_plus: in QDotPlus
\* when sg = 0, in QDotPlus and as sg * Lambda in CS.impulse otherwise
ReturnsImpulse(ops, sg) ==
  (Calls(ops) /\ ~aborted') =>
    \E c \in { MatVec(call'.in.Hm, call'.in.QDotMinus) } :
    \E sol \in KKTSolution(call'.in.Hm, G', c, v_plus) :
      /\ QDotPlus' = sol[1]
      /\ sg # 0 => impulse' = [i \in 1..Len(sol[2]) |-> sg * sol[2][i]]

\* C19: for the same well-posed input the three ComputeConstraintImpulses
\* strategies produce the same QDotPlus and store the same impulse, sign
\* included: each returns the one solution of the velocity jump system, the
\* impulse with the sign of the constraint force of the forward dynamics.
C19_ImpulsesAgree == [][ReturnsImpulse(ImpulseOps, 1)]_vars

\* The post-impact velocities of the three strategies agree
C19_VelocitiesAgree == [][ReturnsImpulse(ImpulseOps, 0)]_vars

\* RangeSpaceSparse stores Lambda, Direct stores its negation
C19_RangeSpaceSign ==
  [][ReturnsImpulse({ "ComputeConstraintImpulsesRangeSpaceSparse" }, 1)]_vars
C19_DirectSign == [][ReturnsImpulse({ "ComputeConstraintImpulsesDirect" }, -1)]_vars

\* The positions of the log that hold a step named in names
At(names) == { i \in 1..Len(log') : log'[i][1] \in names }
\* Every step named in first is before every step named in then
Before(first, then) == \A i \in At(first), j \in At(then) : i < j
\* The steps first and then of the same subject come in this order
PairedBefore(first, then) ==
  \A j \in At({then}) : \E i \in At({first}) : i < j /\ log'[i][2] = log'[j][2]
\* The subjects of the steps named step, in the order of the log
Subjects(step) == [k \in 1..Cardinality(At({step})) |->
                     log'[CHOOSE i \in At({step}) :
                            Cardinality({ j \in At({step}) : j <= i }) = k][2]]

GammaStepNames == { "calcGamma", "addInBaumgarteStabilizationForces" }

\* C20: the order of the assembly in CalcConstrainedSystemVariables: the bias
\* force, H set to zero and then computed, the transforms of the bodies in
\* ascending order (a body after its parent), the Jacobian, the position
\* errors, the velocity errors, gamma.  Every Jacobian evaluation is after the
\* refresh of the transforms, and every calcGamma and Baumgarte contribution
\* is after the err and errd of all constraints of the same call, whose values
\* the stabilised gamma holds.
C20_AssemblyOrder ==
  [][Calls(AssemblyOps \cup ForwardDynamicsOps) =>
       /\ Before({"NonlinearEffects"}, {"H.setZero"})
       /\ Before({"H.setZero"}, {"CompositeRigidBodyAlgorithm"})
       /\ Before({"CompositeRigidBodyAlgorithm"}, {"X_base"})
       /\ Subjects("X_base")
            = [k \in 1..Cardinality(At({"X_base"})) |-> k]
       /\ Before({"X_base"}, {"calcConstraintJacobian"})
       /\ PairedBefore("calcConstraintJacobian", "calcPositionError")
       /\ Before({"calcPositionError"}, {"calcVelocityError"})
       /\ Before({"calcPositionError", "calcVelocityError"}, GammaStepNames)
       /\ PairedBefore("calcGamma", "addInBaumgarteStabilizationForces")
       /\ ~aborted' =>
            /\ At({"X_base"}) # {} /\ At({"H.setZero"}) # {}
            /\ \A step \in {"calcConstraintJacobian", "calcPositionError",
                             "calcVelocityError", "calcGamma"} :
                 \A i \in 1..Len(constraints) :
                   \E k \in At({step}) : log'[k][2] = i - 1
            /\ \A r \in CoveredRows :
                 constraints[LastCover(r)].baumgarteEnabled =>
                   gamma'[r + 1] =
                     call'.in.gam[r + 1]
                     - 2 * constraints[LastCover(r)].baumgarteParam
                         * call'.in.ed[r + 1]
                     - constraints[LastCover(r)].baumgarteParam
                         * constraints[LastCover(r)].baumgarteParam
                         * call'.in.e[r + 1]]_vars

\* An assembly has completed on two constraints, the second stabilised, with
\* a position error on its row
C20_Witness ==
  /\ call.op \in AssemblyOps /\ ~aborted /\ bound
  /\ Len(constraints) = 2 /\ constraints[2].baumgarteEnabled
  /\ err = <<1, 0>> /\ errd = <<0, 1>>
  /\ gamma # <<call.in.gam[1], call.in.gam[2]>>
  /\ Len(log) > 10

------------------------------------------------------------------------------
(* Properties of the assembly of the configuration.                         *)

\* The step leaves the loop of CalcAssemblyQ or never enters it
Returns == asm'.pc = "idle" /\ ~aborted'

\* C15: CalcAssemblyQ with an initial guess whose position error has a norm
\* below the tolerance returns true at once, for every max_iter: no
\* iteration, no Jacobian evaluation and no linear solve take place, and Q
\* is the guess.
C15_SatisfiedGuessReturns ==
  [][(/\ Calls({ "CalcAssemblyQ" })
      /\ ~AssemblyQSizesRefused(Q, call'.args[1], call'.args[2])
      /\ NormSq(PositionError(world, call'.args[1])) < call'.args[3] * call'.args[3])
     => /\ Returns /\ ret' = 1
        /\ Q' = call'.args[1]
        /\ asm'.it = 0 /\ asm'.jacs = 0 /\ asm'.lins = 0]_vars

\* A satisfied guess was accepted with max_iter = 0 on a registry that holds
\* constraints
C15_Witness ==
  /\ call.op = "CalcAssemblyQ" /\ asm.pc = "idle" /\ ~aborted
  /\ size = 2 /\ asm.max_iter = 0 /\ ret = 1
  /\ asm.guess = <<1, 1>> /\ Q = <<1, 1>> /\ asm.lins = 0

\* The same with iterations allowed
C15_WitnessMaxIter ==
  /\ call.op = "CalcAssemblyQ" /\ asm.pc = "idle" /\ ~aborted
  /\ size > 0 /\ asm.max_iter = MaxIter /\ ret = 1
  /\ Q = asm.guess /\ asm.lins = 0

\* C16: CalcAssemblyQ always terminates.  It performs at most max_iter
\* iterations of one linear solve and one update each; when the loop is left
\* without a converged iteration the call returns false, the process lives
\* on and Q is the configuration after the last update (the guess when
\* max_iter = 0); the loop ends the process only through the unrecognized
\* selector of its linear solve; and a call that has entered the loop
\* leaves it.
C16_AssemblyTerminates ==
  /\ [][/\ asm'.it <= asm'.max_iter /\ asm'.lins <= asm'.max_iter
        /\ asm'.lins = asm'.jacs \/ aborted'
        /\ asm'.lins \in { asm'.it, asm'.it + 1 }
        /\ (asm.pc = "loop" /\ asm' # asm /\ asm.it = asm.max_iter) =>
             /\ Returns /\ ret' = 0
             /\ Q' = asm.QInit
             /\ asm.max_iter = 0 => Q' = asm.guess
        /\ (asm.pc = "loop" /\ Returns /\ asm.it < asm.max_iter) =>
             /\ ret' = 1 /\ Q' = asm'.QInit
             /\ NormBelow(asm'.e, asm.tol) /\ NormBelow(asm'.d, asm.tol)
        /\ (asm.pc = "loop" /\ ~aborted /\ aborted') =>
             /\ linear_solver \notin ValidSolvers
             /\ asm.it < asm.max_iter /\ Q' = Q]_vars
  /\ (asm.pc = "loop") ~> (asm.pc = "idle" \/ aborted)
  /\ (asm.pc = "loop" /\ linear_solver \in ValidSolvers) ~> (asm.pc = "idle" /\ ~aborted)

\* The loop was left after max_iter >= 2 iterations that did not converge,
\* with a configuration other than the guess
C16_Witness ==
  /\ call.op = "CalcAssemblyQ" /\ asm.pc = "idle" /\ ~aborted
  /\ ret = 0 /\ asm.max_iter >= 2 /\ asm.it = asm.max_iter
  /\ asm.lins = asm.max_iter
  /\ Q = asm.QInit /\ Q # asm.guess

\* The guess was not satisfied and max_iter = 0
C16_WitnessNoIteration ==
  /\ call.op = "CalcAssemblyQ" /\ asm.pc = "idle" /\ ~aborted
  /\ ret = 0 /\ asm.max_iter = 0 /\ asm.lins = 0
  /\ Q = asm.guess /\ ~NormBelow(asm.e, asm.tol)

\* The second iteration converged
C16_WitnessConverged ==
  /\ call.op = "CalcAssemblyQ" /\ asm.pc = "idle" /\ ~aborted
  /\ ret = 1 /\ asm.lins = 2 /\ Q # asm.guess

\* C17: malformed sizes are fatal before any output is written: CalcAssemblyQ
\* with Q or QInit not of q_size entries or weights not of dof_count entries,
\* CalcAssemblyQDot with QDot, QDotInit or weights not of dof_count entries
\* or Q not of q_size entries, and SolveLinearSystem with a matrix whose row
\* count is not the length of b or whose column count is not the length of x
\* terminate the process with Q, QDot and x as they were.
C17_MalformedSizesFatal ==
  [][/\ (/\ Calls({ "CalcAssemblyQ" })
         /\ \/ Len(Q) # QSize \/ Len(call'.args[1]) # QSize
            \/ Len(call'.args[2]) # DofCount)
        => aborted' /\ UNCHANGED <<Q, QDot, xsol, asm, ret>>
     /\ (/\ Calls({ "CalcAssemblyQDot" })
         /\ \/ Len(QDot) # DofCount \/ Len(call'.args[1]) # QSize
            \/ Len(call'.args[2]) # DofCount \/ Len(call'.args[3]) # DofCount)
        => aborted' /\ UNCHANGED <<Q, QDot, xsol, asm, ret>>
     /\ (/\ Calls({ "SolveLinearSystem" })
         /\ \/ call'.args[1].rows # Len(call'.args[2])
            \/ call'.args[1].cols # Len(xsol))
        => aborted' /\ UNCHANGED <<Q, QDot, xsol, asm, ret>>]_vars

\* CalcAssemblyQ was refused for an output vector Q that is too short, the
\* guess and the weights being well-formed and the guess satisfied
C17_Witness ==
  /\ call.op = "CalcAssemblyQ" /\ aborted
  /\ Len(Q) # QSize /\ call.args[1] = <<1, 1>> /\ call.args[2] = <<1, 1>>
  /\ size > 0 /\ linear_solver \in ValidSolvers

C17_WitnessQDot ==
  /\ call.op = "CalcAssemblyQDot" /\ aborted
  /\ Len(QDot) = DofCount /\ Len(call.args[1]) = QSize
  /\ Len(call.args[2]) = DofCount /\ Len(call.args[3]) # DofCount
  /\ linear_solver \in ValidSolvers

C17_WitnessSolve ==
  /\ call.op = "SolveLinearSystem" /\ aborted
  /\ call.args[1].rows = Len(call.args[2]) /\ call.args[1].cols # Len(xsol)
  /\ call.args[3] \in ValidSolvers

\* The projection solves refuse an unrecognized selector
C13_ProjectionSolveFatal ==
  [][/\ (asm.pc = "loop" /\ asm' # asm /\ asm.it < asm.max_iter
          /\ linear_solver \notin ValidSolvers)
        => aborted' /\ Q' = Q
     /\ (Calls({ "CalcAssemblyQDot" }) /\ linear_solver \notin ValidSolvers)
        => aborted' /\ QDot' = QDot
     /\ (Calls({ "SolveLinearSystem" }) /\ call'.args[3] \notin ValidSolvers)
        => aborted' /\ xsol' = xsol]_vars

------------------------------------------------------------------------------
(* Properties of repeated solves on one registry.                           *)

\* The lower-right size x size block of M is zero
CornerZero(M) ==
  \A i \in (DofCount + 1)..M.rows, j \in (DofCount + 1)..M.cols : M.e[<<i, j>>] = 0

\* M is [[Hm, Gm^T], [Gm, 0]]
IsAugmented(M, Hm, Gm) ==
  /\ M.rows = DofCount + Gm.rows /\ M.cols = DofCount + Gm.rows
  /\ \A i \in 1..DofCount, j \in 1..DofCount : M.e[<<i, j>>] = Hm.e[<<i, j>>]
  /\ \A i \in 1..DofCount, r \in 1..Gm.rows :
       /\ M.e[<<i, DofCount + r>>] = Gm.e[<<r, i>>]
       /\ M.e[<<DofCount + r, i>>] = Gm.e[<<r, i>>]
  /\ CornerZero(M)

\* C21: a ForwardDynamicsConstraintsDirect call that returns has built
\* A = [[H, G^T], [G, 0]] and b = [Tau - C; gamma], left in x the solution of
\* A x = b, written QDDot[i] = x[i] and stored force[i] = -x[n + i] for every
\* row, so that H QDDot - G^T force = Tau - C and G QDDot = gamma; and the
\* lower-right block of A is zero in every state of a bound registry, after
\* any sequence of Bind, clear and solves.
C21_DirectSolve ==
  [][/\ (bound' /\ ~aborted') => CornerZero(A')
     /\ (Calls({ "ForwardDynamicsConstraintsDirect" }) /\ ~aborted') =>
          /\ IsAugmented(A', H', G')
          /\ H' = world.Hm /\ G'.rows = size
          /\ b' = VecSub(world.tau, C') \o gamma'
          /\ MatVec(A', x') = b'
          /\ QDDot' = SubSeq(x', 1, DofCount)
          /\ \A i \in 1..size : force'[i] = - x'[DofCount + i]
          /\ VecSub(MatVec(H', QDDot'), MatVec(MatT(G'), force'))
               = VecSub(world.tau, C')
          /\ MatVec(G', QDDot') = gamma']_vars

\* The second direct solve on a registry of two rows, made on other inputs
\* after a clear, has returned non-zero forces
C21_Witness ==
  /\ call.op = "ForwardDynamicsConstraintsDirect" /\ ~aborted
  /\ solves = 2 /\ size = 2
  /\ \E i \in 1..size : force[i] # 0
  /\ IsAugmented(A, H, G)

------------------------------------------------------------------------------
(* Properties of the null-space strategy under the two math backends.       *)

NullSpaceOps == { "ForwardDynamicsConstraintsNullSpace",
                  "ComputeConstraintImpulsesNullSpace" }

\* The right-hand side c the call passes to SolveConstrainedSystemNullSpace
NullSpaceC ==
  IF call'.op = "ForwardDynamicsConstraintsNullSpace" THEN VecSub(world.tau, C')
  ELSE MatVec(H', world.QDotMinus)

\* The two outputs of SolveConstrainedSystemNullSpace after the step
NullSpaceOutputs ==
  IF call'.op = "ForwardDynamicsConstraintsNullSpace" THEN <<QDDot', force'>>
  ELSE <<QDotPlus', impulse'>>

\* The outputs are qddot = Y qddot_y + Z qddot_z and the lambda with
\* (G Y) lambda = Y^T (H qddot - c)
BothOutputsWritten ==
  /\ NullSpaceOutputs[1] = VecAdd(MatVec(Y', qddot_y'), MatVec(Z', qddot_z'))
  /\ MatVec(MatMul(G', Y'), NullSpaceOutputs[2])
       = MatVec(MatT(Y'), VecSub(MatVec(H', NullSpaceOutputs[1]), NullSpaceC))

\* C22: SolveConstrainedSystemNullSpace writes both outputs for every valid
\* solver selector and under both math backends: every null-space call with
\* a valid selector on a registry of one row or more returns
\* qddot = Y qddot_y + Z qddot_z and the lambda solving
\* (G Y) lambda = Y^T (H qddot - c), also with the PartialPivLU selector in a
\* build with RBDL_USE_SIMPLE_MATH.
C22_NullSpaceWritesBoth ==
  [][(Calls(NullSpaceOps) /\ ~aborted' /\ size > 0) => BothOutputsWritten]_vars

\* The same in a build without RBDL_USE_SIMPLE_MATH, or with another selector
\* than PartialPivLU
C22_FullBackendWritesBoth ==
  [][(/\ Calls(NullSpaceOps) /\ ~aborted' /\ size > 0
      /\ ~ (world.simple_math /\ linear_solver = LinearSolverPartialPivLU))
     => BothOutputsWritten]_vars

\* With PartialPivLU in a build with RBDL_USE_SIMPLE_MATH the call returns
\* qddot and leaves lambda as it was
C22_LambdaKept ==
  [][(/\ Calls(NullSpaceOps) /\ ~aborted' /\ size > 0
      /\ world.simple_math /\ linear_solver = LinearSolverPartialPivLU)
     => /\ NullSpaceOutputs[1] = VecAdd(MatVec(Y', qddot_y'), MatVec(Z', qddot_z'))
        /\ <<force', impulse'>> = <<force, impulse>>]_vars

------------------------------------------------------------------------------
(* Properties of the success test of CalcAssemblyQ.                         *)

\* An iteration of the loop of CalcAssemblyQ has solved its linear system
Iterated == asm.pc = "loop" /\ asm'.lins = asm.lins + 1 /\ ~aborted'

\* C26: after at least one iteration CalcAssemblyQ returns true at the first
\* iteration at which the norm of the recomputed position error and the norm
\* of the step d are both below the tolerance, and only then: an iterate
\* whose error is below the tolerance and whose step is not does not end the
\* iteration, and whenever the call returns true the norm of the position
\* error at the returned Q is below the tolerance.
C26_SuccessCondition ==
  [][/\ Iterated =>
          /\ asm'.QInit = VecAdd(asm.QInit, asm'.d)
          /\ asm'.e = PositionError(world, asm'.QInit)
          /\ (Returns /\ ret' = 1) <=>
                (/\ NormSq(asm'.e) < asm.tol * asm.tol
                 /\ NormSq(asm'.d) < asm.tol * asm.tol)
          /\ ~Returns => asm'.pc = "loop" /\ asm'.it = asm.it + 1 /\ Q' = Q
          /\ Returns => Q' = asm'.QInit
     /\ (asm.pc = "loop" /\ asm'.pc = "idle" /\ ~Iterated /\ ~aborted') => ret' = 0
     /\ (call'.op = "CalcAssemblyQ" /\ asm'.pc = "idle" /\ ~aborted' /\ ret' = 1) =>
          NormSq(PositionError(world', Q')) < asm'.tol * asm'.tol]_vars

\* An iterate met the constraints with a step that was not below the
\* tolerance, and the loop went on
C26_Witness ==
  /\ call.op = "CalcAssemblyQ" /\ asm.pc = "loop" /\ ~aborted
  /\ asm.it >= 1 /\ asm.it < asm.max_iter /\ size > 0
  /\ NormSq(asm.e) < asm.tol * asm.tol
  /\ ~ (NormSq(asm.d) < asm.tol * asm.tol)

\* The iteration after it returned true with that configuration
C26_WitnessReturned ==
  /\ call.op = "CalcAssemblyQ" /\ asm.pc = "idle" /\ ~aborted
  /\ ret = 1 /\ asm.lins >= 2 /\ size > 0
  /\ NormSq(asm.d) = 0 /\ Q = asm.QInit /\ Q # asm.guess

------------------------------------------------------------------------------
(* Properties of the stabilisation settings of a merged loop constraint.    *)

\* The stabilisation settings of a constraint
Baumgarte(c) == <<c.baumgarteEnabled, c.baumgarteParam>>

\* The step is a single-axis AddLoopConstraint call whose axis was appended
\* to the last loop constraint
LoopMerged ==
  /\ call'.op = "AddLoopConstraint" /\ ~aborted'
  /\ Len(constraints') = Len(constraints)

\* C28: when a single-axis AddLoopConstraint call is merged into an existing
\* loop constraint, the Baumgarte enable flag and time constant of that call
\* replace the settings of the whole constraint object, and nothing else
\* changes them: all rows of the merged constraint use the settings of the
\* most recent call when gamma is assembled.
C28_MergedLoopSettings ==
  [][/\ LoopMerged =>
          LET k == loopConstraints[Len(loopConstraints)] + 1
          IN  /\ Baumgarte(constraints'[k]) = call'.stab
              /\ Len(constraints'[k].dirs) = Len(constraints[k].dirs) + 1
              /\ constraints'[k].rowInSystem = constraints[k].rowInSystem
     /\ \A k \in 1..Len(constraints) :
          (Len(constraints') >= k /\ Baumgarte(constraints'[k]) # Baumgarte(constraints[k]))
            => /\ LoopMerged
               /\ k = loopConstraints[Len(loopConstraints)] + 1
     /\ (Calls(AssemblyOps \cup ForwardDynamicsOps) /\ ~aborted') =>
          \A k \in 1..Len(constraints) :
            (constraints[k].type = "loop" /\ Len(constraints[k].dirs) > 1) =>
              \A r \in RowsOf(constraints[k]) :
                gamma'[r + 1] =
                  call'.in.gam[r + 1]
                  + (IF constraints[k].baumgarteEnabled
                     THEN - 2 * constraints[k].baumgarteParam * call'.in.ed[r + 1]
                          - constraints[k].baumgarteParam
                              * constraints[k].baumgarteParam * call'.in.e[r + 1]
                     ELSE 0)]_vars

\* An axis registered with stabilisation was merged into a loop constraint
\* registered without it, and the assembly stabilised the row of the first
\* call with the time constant of the second
C28_Witness ==
  /\ call.op \in AssemblyOps \cup ForwardDynamicsOps /\ ~aborted /\ bound
  /\ Len(constraints) = 1 /\ constraints[1].type = "loop"
  /\ Len(constraints[1].dirs) = 2
  /\ Baumgarte(constraints[1]) = <<TRUE, 2>>
  /\ call.in.e[1] = 1
  /\ gamma[1] = call.in.gam[1] - 4 * call.in.ed[1] - 4 * call.in.e[1]

\* The reverse: the second call switched the stabilisation of both rows off
C28_WitnessDisabled ==
  /\ call.op \in AssemblyOps \cup ForwardDynamicsOps /\ ~aborted /\ bound
  /\ Len(constraints) = 1 /\ constraints[1].type = "loop"
  /\ Len(constraints[1].dirs) = 2
  /\ Baumgarte(constraints[1]) = <<FALSE, 1>>
  /\ call.in.e[1] = 1 /\ gamma = <<call.in.gam[1], call.in.gam[2]>>

------------------------------------------------------------------------------
(* Properties of ForwardDynamicsContactsKokkevis on a bound registry of      *)
(* contact constraints.                                                     *)

\* The step is a ForwardDynamicsContactsKokkevis call that passes its checks
\* on entry
KokkevisRuns ==
  /\ Calls(KokkevisOps) /\ bound /\ size > 0
  /\ Len(constraints) = Len(contactConstraints)

\* The change of the acceleration of the contact point of row c along its
\* normal under a unit test force on row r: J[c] H^-1 J[r]^T
Response(in, c, r) ==
  SumSeq([i \in 1..DofCount |-> in.J[c][i] * LinSolve(in.Hm, in.J[r])[i]])

\* C23: within one ForwardDynamicsContactsKokkevis call on a pure contact
\* set every entry K[row(bi,j), row(dj,k)] is assigned from the test force
\* (bi,j): all size x size entries of K hold the coupling of this call's
\* inputs, and none is kept from an earlier call or from Bind or clear.
C23_CouplingCoverage ==
  [][KokkevisRuns =>
       /\ K'.rows = size /\ K'.cols = size
       /\ \A r \in 1..size, c \in 1..size :
            K'.e[<<r, c>>] = Response(call'.in, c, r)]_vars

\* The second call on two contact constraints on two bodies has replaced a
\* K that a call on other inputs left behind; the rows are coupled
C23_Witness ==
  /\ call.op \in KokkevisOps /\ ~aborted /\ bound
  /\ solves = 2 /\ Len(constraints) = 2 /\ size = 2
  /\ Len(log) = 6 /\ log[1][2][constraints[2].bodyIds[1] + 1] # 0
  /\ K.e[<<1, 2>>] # 0 /\ K.e[<<2, 1>>] # 0
  /\ K.e[<<2, 2>>] = Response(call.in, 2, 2)

\* The same for one contact constraint of two normals
C23_WitnessMerged ==
  /\ call.op \in KokkevisOps /\ ~aborted /\ bound
  /\ solves = 2 /\ Len(constraints) = 1 /\ size = 2
  /\ K.e[<<1, 2>>] # 0 /\ K.e[<<2, 1>>] # 0

\* The movable body of the contact constraint of row r
BodyOfRow(r) == constraints[LastCover(r)].bodyIds[1]

\* C27: across repeated ForwardDynamicsContactsKokkevis calls on one bound
\* registry of contact constraints, with or without clear between them, the
\* external constraint forces are not accumulated: in the test-force loop
\* only the entry of f_ext_constraints for the movable body of the contact
\* under test is set, to the test force, and it is zeroed before the next
\* test force; at the end of a call f_ext_constraints[b] is minus the sum of
\* f_t[row] * force[row] over this call's contact rows on body b, and zero
\* for a body without contacts.
C27_ConstraintForcesNotAccumulated ==
  [][KokkevisRuns =>
       /\ Len(log') = 3 * size
       /\ \A t \in 1..size :
            LET before == IF t = 1 THEN f_ext_constraints ELSE log'[3 * t - 3][2]
                set == log'[3 * t - 2]
                zero == log'[3 * t]
            IN  /\ set[1] = "f_ext_constraints"
                /\ log'[3 * t - 1]
                     = <<"ForwardDynamicsAccelerationDeltas", <<BodyOfRow(t - 1), t - 1>>>>
                /\ zero[1] = "f_ext_constraints.setZero"
                /\ \A i \in 1..NumBodies :
                     /\ set[2][i] = IF i - 1 = BodyOfRow(t - 1) THEN f_t'[t]
                                    ELSE before[i]
                     /\ zero[2][i] = IF i - 1 = BodyOfRow(t - 1) THEN 0
                                     ELSE before[i]
       /\ ~aborted' =>
            \A i \in 1..NumBodies :
              f_ext_constraints'[i] =
                - SumSeq([r \in 1..size |->
                            IF BodyOfRow(r - 1) = i - 1 THEN f_t'[r] * force'[r]
                            ELSE 0])]_vars

\* The second call on two contact constraints on two bodies came upon the
\* force the call before had left on the second body, and has left forces
\* on both bodies and none on the root
C27_Witness ==
  /\ call.op \in KokkevisOps /\ ~aborted /\ bound
  /\ solves = 2 /\ Len(constraints) = 2 /\ size = 2
  /\ constraints[1].bodyIds[1] # constraints[2].bodyIds[1]
  /\ Len(log) = 6 /\ log[1][2][constraints[2].bodyIds[1] + 1] # 0
  /\ f_ext_constraints[1] = 0
  /\ f_ext_constraints[2] = - force[1] /\ f_ext_constraints[3] = - force[2]
  /\ force[1] # 0 /\ force[2] # 0

\* The second call after a clear, on one contact constraint of two normals,
\* has left the sum of its two forces on the body
C27_WitnessCleared ==
  /\ call.op \in KokkevisOps /\ ~aborted /\ bound
  /\ solves = 2 /\ Len(constraints) = 1 /\ size = 2
  /\ log[1][2] = <<0, 1, 0>>
  /\ f_ext_constraints[2] = - force[1] - force[2] /\ f_ext_constraints[2] # 0

------------------------------------------------------------------------------
(* Properties of the two recursions over the tree of bodies.                *)

\* The step is a call of the operation op that returns
TreeCallReturns(op) == call'.op = op /\ solves' = solves + 1 /\ ~aborted'

\* The children of body i
Children(in, i) == { j \in 1..Len(in.lambda) : in.lambda[j] = i }

\* Body i and its ancestors below the root
RECURSIVE AncestorsOrSelf(_, _)
AncestorsOrSelf(in, i) ==
  IF i = 0 THEN {} ELSE {i} \cup AncestorsOrSelf(in, in.lambda[i])

\* The sum of the values val[j] over the bodies j of the set
RECURSIVE SumOver(_, _)
SumOver(val, set) ==
  IF set = {} THEN 0
  ELSE LET j == CHOOSE k \in set : TRUE IN val[j] + SumOver(val, set \ {j})

\* The delta bias force that a test force f on a body puts on its ancestor
\* i: - f on the body itself, and on a parent what the joint of its child on the
\* path to b does not take up
RECURSIVE DeltaBias(_, _, _, _)
DeltaBias(in, body, f, i) ==
  IF i = body THEN - f
  ELSE LET j == CHOOSE k \in Children(in, i) : k \in AncestorsOrSelf(in, body)
       IN  DeltaBias(in, body, f, j) * (1 - in.S[j] * in.S[j])

C24_WitnessBaseline ==
  /\ call.op = "ForwardDynamicsAccelerationDeltas" /\ ~aborted
  /\ solves = 2 /\ world.a[1] = - world.gravity /\ d_a[1] = - world.gravity
  /\ \E i \in 1..Len(world.lambda) : world.lambda[i] # 0 /\ d_pA[world.lambda[i] + 1] # 0

\* The positions of the step <<step, i>> in the log
Pos(step, i) == { k \in 1..Len(log') : log'[k] = <<step, i>> }

\* The bias force of body i after the backward pass: minus its external
\* force, and from every child what the joint of the child passes on
RECURSIVE SubtreeBias(_, _, _)
SubtreeBias(in, fext, i) ==
  - fext[i + 1]
  + SumOver([j \in 1..Len(in.lambda) |->
               LET pj == SubtreeBias(in, fext, j)
               IN  pj + in.S[j] * (in.tau[j] - in.S[j] * pj)],
            Children(in, i))

\* The articulated inertia of body i after the backward pass
RECURSIVE SubtreeInertia(_, _)
SubtreeInertia(in, i) ==
  1 + SumOver([j \in 1..Len(in.lambda) |->
                 SubtreeInertia(in, j) - in.d[j] * in.S[j] * in.S[j]],
              Children(in, i))

\* C25: ForwardDynamicsApplyConstraintForces re-initializes IA and pA of
\* every body (subtracting its external constraint force), then runs the
\* backward pass from body N-1 down to body 1 and then the forward pass from
\* body 1 to body N-1: every body is folded into its parent only after all
\* of its own children have been folded into it, a body attached to the root
\* is not folded, and the acceleration of every body is computed after that
\* of its parent; IA, pA, u, a and QDDot are those of this call's forces.
C25_RecursionOrder ==
  [][TreeCallReturns("ForwardDynamicsApplyConstraintForces") =>
       LET in == world
           n == Len(world.lambda) + 1
       IN  /\ \A i \in 1..(n - 1) :
                /\ Cardinality(Pos("IA, pA", i)) = 1
                /\ Cardinality(Pos("u", i)) = 1
                /\ Cardinality(Pos("a", i)) = 1
                /\ Cardinality(Pos("fold", i)) = IF in.lambda[i] # 0 THEN 1 ELSE 0
           /\ Len(log') = 3 * (n - 1)
                          + Cardinality({ i \in 1..(n - 1) : in.lambda[i] # 0 })
           /\ Before({"IA, pA"}, {"u", "fold"})
           /\ Before({"u", "fold"}, {"a"})
           /\ Subjects("u") = [k \in 1..(n - 1) |-> n - k]
           /\ Subjects("a") = [k \in 1..(n - 1) |-> k]
           /\ \A i \in 1..(n - 1) : \A j \in Children(in, i) :
                /\ \A k \in Pos("fold", j), l \in Pos("u", i) : k < l
                /\ \A k \in Pos("fold", j), l \in Pos("fold", i) : k < l
                /\ \A k \in Pos("a", i), l \in Pos("a", j) : k < l
           /\ Len(f_ext_constraints) = n =>
                /\ world'.a[1] = - in.gravity
                /\ \A i \in 1..(n - 1) :
                     /\ world'.pA[i + 1] = SubtreeBias(in, f_ext_constraints, i)
                     /\ world'.IA[i + 1] = SubtreeInertia(in, i)
                     /\ world'.u[i + 1] = in.tau[i] - in.S[i] * world'.pA[i + 1]
                     /\ QDDot'[i] * in.d[i]
                          = world'.u[i + 1]
                            - in.d[i] * in.S[i] * world'.a[in.lambda[i] + 1]
                     /\ world'.a[i + 1]
                          = world'.a[in.lambda[i] + 1] + in.S[i] * QDDot'[i]]_vars

\* The second call in a row on a chain of four bodies: the external force
\* on body 3 has been folded into body 2 and from there into body 1, whose
\* joint takes it up
C25_Witness ==
  /\ call.op = "ForwardDynamicsApplyConstraintForces" /\ ~aborted /\ bound
  /\ solves = 2 /\ world.lambda = <<0, 1, 2>> /\ world.S = <<1, 0, 0>>
  /\ f_ext_constraints = <<0, 0, 0, 6>>
  /\ world.pA = <<0, -6, -6, -6>>
  /\ log[4] = <<"u", 3>> /\ log[5] = <<"fold", 3>> /\ log[7] = <<"fold", 2>>
  /\ log[8] = <<"u", 1>> /\ Len(log) = 11
  /\ QDDot[1] # 0

\* A body with two children was folded after both
C25_WitnessBranch ==
  /\ call.op = "ForwardDynamicsApplyConstraintForces" /\ ~aborted /\ bound
  /\ world.lambda = <<0, 1, 1>> /\ world.S = <<1, 0, 0>>
  /\ f_ext_constraints = <<0, 0, 4, 6>> /\ world.pA[2] = -10

====
